---------------------------- MODULE Spec2Model ----------------------------
(***************************************************************************)
(* A model of the profile store, the similarity scan and the sync pipeline *)
(* of the Apple Music profile-sync service (src/services/vector_store.py,  *)
(* src/controllers/sync_controller.py, src/main.py).                       *)
(*                                                                         *)
(* Strings the code inspects character by character (user ids, collection  *)
(* names, document ids) are sequences of one-character strings.            *)
(***************************************************************************)
EXTENDS Integers, Sequences, FiniteSets

VARIABLES
    db,           \* MongoDB database: collection name -> (document _id -> document)
    collections,  \* VectorStoreService.collections: names of the cached handles
    clock,        \* datetime.utcnow(), in ticks
    call,         \* history: the last completed call, its arguments and what it saw
    ret,          \* what the last completed call returned
    tasks,        \* the running sync requests: task -> its position and locals
    landed,       \* history: user id -> the (text, embedding) of its last landed upsert
    keyst         \* the inputs and outputs of the partition-key mapping under test

vars == <<db, collections, clock, call, ret, tasks, landed, keyst>>

(***************************************************************************)
(* Characters and Python string operations                                 *)
(***************************************************************************)
LowerCase == {"a","b","c","d","e","f","g","h","i","j","k","l","m",
              "n","o","p","q","r","s","t","u","v","w","x","y","z"}

UpperCase == {"A","B","C","D","E","F","G","H","I","J","K","L","M",
              "N","O","P","Q","R","S","T","U","V","W","X","Y","Z"}

Digits == {"0","1","2","3","4","5","6","7","8","9"}

\* the character class [a-zA-Z0-9] of the regular expression
Alnum == LowerCase \cup UpperCase \cup Digits

\* the literal "user_"
UserPrefix == <<"u","s","e","r","_">>

\* the literal "profile_"
ProfilePrefix == <<"p","r","o","f","i","l","e","_">>

\* a plausible slip: the last character of the prefix is not looked at
StartsWithAllButLast(s, p) ==
    Len(s) >= Len(p) - 1 /\ SubSeq(s, 1, Len(p) - 1) = SubSeq(p, 1, Len(p) - 1)

\* str.startswith
StartsWith(s, p) == Len(s) >= Len(p) /\ SubSeq(s, 1, Len(p)) = p

\* the 1-based positions at which old occurs in s
Occurrences(s, old) ==
    {i \in 1..(Len(s) - Len(old) + 1) : SubSeq(s, i, i + Len(old) - 1) = old}

\* str.replace(old, new, 1): the leftmost occurrence only
ReplaceFirst(s, old, new) ==
    IF Occurrences(s, old) = {} THEN s
    ELSE LET i == CHOOSE k \in Occurrences(s, old) :
                      \A j \in Occurrences(s, old) : k <= j
         IN  SubSeq(s, 1, i - 1) \o new \o SubSeq(s, i + Len(old), Len(s))

\* str.replace(old, new): every occurrence, left to right, not overlapping
RECURSIVE ReplaceAll(_, _, _)
ReplaceAll(s, old, new) ==
    IF Occurrences(s, old) = {} THEN s
    ELSE LET i == CHOOSE k \in Occurrences(s, old) :
                      \A j \in Occurrences(s, old) : k <= j
         IN  SubSeq(s, 1, i - 1) \o new
                \o ReplaceAll(SubSeq(s, i + Len(old), Len(s)), old, new)

\* a plausible slip: the character class also admits the dash, [^a-zA-Z0-9-]
SanitizeAllowingDash(user_id) ==
    [i \in 1..Len(user_id) |->
        IF user_id[i] \in Alnum \cup {"-"} THEN user_id[i] ELSE "_"]

\* re.sub(r'[^a-zA-Z0-9]', '_', user_id)
Sanitize(user_id) ==
    [i \in 1..Len(user_id) |-> IF user_id[i] \in Alnum THEN user_id[i] ELSE "_"]

\* a plausible slip: the prefix is always added
AlwaysPrefixedName(user_id) == UserPrefix \o Sanitize(user_id)

\* VectorStoreService.get_user_collection_name
get_user_collection_name(user_id) ==
    LET sanitized == Sanitize(user_id)
    IN  IF StartsWith(sanitized, UserPrefix) THEN sanitized
        ELSE UserPrefix \o sanitized


(***************************************************************************)
(* MongoDB documents and collections                                       *)
(*                                                                         *)
(* A document is a function from its field names to their values; a        *)
(* collection is a function from _id to document (_id is unique within a   *)
(* collection); the database is a function from the names of the           *)
(* collections that exist to their contents.                               *)
(***************************************************************************)

\* the message of the error a call to the backing store raises when the store
\* cannot be reached, word by word
StorageError == <<"connection", "refused">>

\* Python's None, and find_one's answer when no document matches; it is only
\* ever compared with records and with sequences that are not empty
None == [f \in {} |-> 0]

EmptyCollection == [k \in {} |-> None]

\* a plausible slip: the embedding of a matched document is written by a
\* separate update, so this one leaves it as it is
SetFieldsKeepingEmbedding(old, fields) ==
    [f \in (DOMAIN old) \cup (DOMAIN fields) |->
        IF f \in DOMAIN fields /\ ~(f = "embedding" /\ f \in DOMAIN old)
        THEN fields[f] ELSE old[f]]

\* {"$set": fields}: the named fields are overwritten, every other field is kept
SetFields(old, fields) ==
    [f \in (DOMAIN old) \cup (DOMAIN fields) |->
        IF f \in DOMAIN fields THEN fields[f] ELSE old[f]]

\* a plausible slip: {"$setOnInsert": fields}, which leaves a matched document as it is
SetOnInsertOnly(coll, id, fields) ==
    IF id \in DOMAIN coll THEN coll
    ELSE [k \in (DOMAIN coll) \cup {id} |->
            IF k = id THEN SetFields([_id |-> id], fields) ELSE coll[k]]

\* a plausible slip: a matched document is not updated, the fields are inserted
\* as a document of their own under a generated _id
InsertUnderNewId(coll, id, fields) ==
    LET slot == IF id \in DOMAIN coll THEN id \o <<"2">> ELSE id
    IN  [k \in (DOMAIN coll) \cup {slot} |->
            IF k = slot
            THEN [f \in DOMAIN fields |-> IF f = "_id" THEN slot ELSE fields[f]]
            ELSE coll[k]]

\* collection.update_one({"_id": id}, {"$set": fields}, upsert=True)
UpdateOneUpsert(coll, id, fields) ==
    IF id \in DOMAIN coll
    THEN [coll EXCEPT ![id] = SetFields(coll[id], fields)]
    ELSE [k \in (DOMAIN coll) \cup {id} |->
            IF k = id THEN SetFields([_id |-> id], fields) ELSE coll[k]]

\* the element of a set of one element; used as TheOne({F(x) : x \in {e}}) to
\* compute e once and go on with its value x
TheOne(S) == CHOOSE x \in S : TRUE

\* collection.find_one({"_id": id}) on the collection called name
FindOne(dbv, name, id) ==
    IF name \in DOMAIN dbv /\ id \in DOMAIN dbv[name] THEN dbv[name][id] ELSE None

\* the database after update_one on the collection called name (a write to a
\* collection that does not exist creates it)
WriteDoc(dbv, name, id, fields) ==
    LET coll == IF name \in DOMAIN dbv THEN dbv[name] ELSE EmptyCollection
    IN  [c \in (DOMAIN dbv) \cup {name} |->
            IF c = name THEN UpdateOneUpsert(coll, id, fields) ELSE dbv[c]]

\* VectorStoreService._ensure_indexes: create_index on a collection that does
\* not exist creates the (empty) collection
_ensure_indexes(dbv, name) ==
    IF name \in DOMAIN dbv THEN dbv
    ELSE [c \in (DOMAIN dbv) \cup {name} |->
            IF c = name THEN EmptyCollection ELSE dbv[c]]

(***************************************************************************)
(* VectorStoreService.  S is the pair of the database and the service's    *)
(* handle cache; an operation returns the pair it leaves, and its result.  *)
(***************************************************************************)

\* VectorStoreService.get_user_collection
get_user_collection(S, user_id) ==
    LET collection_name == get_user_collection_name(user_id)
    IN  IF collection_name \in S.cache THEN S
        ELSE [db    |-> _ensure_indexes(S.db, collection_name),
              cache |-> S.cache \cup {collection_name}]

\* f"profile_{user_id}" in store_user_profile
StoreProfileId(user_id) == ProfilePrefix \o user_id

\* a plausible slip: the profile is looked up under the bare user id
LookupBareId(user_id) == user_id

\* f"profile_{user_id}" in get_user_profile_embedding and in the profile routes
LookupProfileId(user_id) == ProfilePrefix \o user_id

\* profile_doc of store_user_profile; an omitted embedding is stored as []
profile_doc(user_id, profile_text, embedding, now) ==
    [_id         |-> StoreProfileId(user_id),
     text        |-> profile_text,
     embedding   |-> embedding,
     metadata    |-> "blob",
     pageContent |-> profile_text,
     timestamp   |-> now]

\* vector_doc of store_vector
vector_doc(doc_id, embedding, metadata, now) ==
    [_id       |-> doc_id,
     embedding |-> embedding,
     metadata  |-> metadata,
     timestamp |-> now]

\* VectorStoreService.store_user_profile
store_user_profile(S, user_id, profile_text, embedding, now) ==
    LET S1  == get_user_collection(S, user_id)
        doc == profile_doc(user_id, profile_text, embedding, now)
    IN  [db    |-> WriteDoc(S1.db, get_user_collection_name(user_id), doc._id, doc),
         cache |-> S1.cache]

\* VectorStoreService.store_vector
store_vector(S, user_id, doc_id, embedding, metadata, now) ==
    LET S1 == get_user_collection(S, user_id)
    IN  [db    |-> WriteDoc(S1.db, get_user_collection_name(user_id), doc_id,
                            vector_doc(doc_id, embedding, metadata, now)),
         cache |-> S1.cache]

\* VectorStoreService.get_vector
get_vector(S, user_id, doc_id) ==
    LET S1 == get_user_collection(S, user_id)
    IN  [S      |-> S1,
         result |-> FindOne(S1.db, get_user_collection_name(user_id), doc_id)]

\* VectorStoreService.get_all_user_collections, as a set: the listing order is
\* the backing store's
get_all_user_collections(dbv) == {c \in DOMAIN dbv : StartsWith(c, UserPrefix)}


(***************************************************************************)
(* Cosine similarity.  A similarity is kept exactly, as the triple         *)
(* (num, qa, qb) that stands for num / (sqrt(qa) * sqrt(qb)).              *)
(***************************************************************************)
RECURSIVE DotProduct(_, _)
DotProduct(a, b) ==
    IF a = <<>> \/ b = <<>> THEN 0
    ELSE Head(a) * Head(b) + DotProduct(Tail(a), Tail(b))

ZeroSimilarity == [num |-> 0, qa |-> 1, qb |-> 1]

\* VectorStoreService.cosine_similarity
cosine_similarity(vec_a, vec_b) ==
    IF vec_a = <<>> \/ vec_b = <<>> THEN ZeroSimilarity
    ELSE IF Len(vec_a) # Len(vec_b) THEN ZeroSimilarity
    ELSE IF DotProduct(vec_a, vec_a) = 0 \/ DotProduct(vec_b, vec_b) = 0
         THEN ZeroSimilarity
    ELSE [num |-> DotProduct(vec_a, vec_b),
          qa  |-> DotProduct(vec_a, vec_a),
          qb  |-> DotProduct(vec_b, vec_b)]

SignedSquare(n) == IF n >= 0 THEN n * n ELSE -(n * n)

\* x < y for two similarities
SimLess(x, y) ==
    SignedSquare(x.num) * (y.qa * y.qb) < SignedSquare(y.num) * (x.qa * x.qb)

\* a plausible slip: an entry goes before the placed entries that are equal to it
InsertBeforeEquals(sorted, x) ==
    LET k == Cardinality({i \in 1..Len(sorted) :
                             SimLess(x.similarity, sorted[i].similarity)})
    IN  SubSeq(sorted, 1, k) \o <<x>> \o SubSeq(sorted, k + 1, Len(sorted))

\* list.sort(key=lambda x: x["similarity"], reverse=True): stable, so an entry
\* goes after the entries already placed that are not smaller
InsertBySimilarity(sorted, x) ==
    LET k == Cardinality({i \in 1..Len(sorted) :
                             ~SimLess(sorted[i].similarity, x.similarity)})
    IN  SubSeq(sorted, 1, k) \o <<x>> \o SubSeq(sorted, k + 1, Len(sorted))

RECURSIVE SortBySimilarity(_)
SortBySimilarity(entries) ==
    IF entries = <<>> THEN <<>>
    ELSE InsertBySimilarity(SortBySimilarity(SubSeq(entries, 1, Len(entries) - 1)),
                            entries[Len(entries)])

(***************************************************************************)
(* The similarity scan                                                     *)
(***************************************************************************)

\* a plausible slip: a profile with an empty embedding is returned like any other
ProfileEmbeddingAllowingEmpty(S, user_id) ==
    LET got     == get_vector(S, user_id, LookupProfileId(user_id))
        profile == got.result
    IN  IF profile = None THEN [S |-> got.S, result |-> None]
        ELSE [S      |-> got.S,
              result |-> [user_id   |-> user_id,
                          embedding |-> profile.embedding,
                          text      |-> profile.text,
                          timestamp |-> profile.timestamp]]

\* VectorStoreService.get_user_profile_embedding
get_user_profile_embedding(S, user_id) ==
    TheOne({
        LET profile == got.result
        IN  IF profile = None THEN [S |-> got.S, result |-> None]
            ELSE IF "embedding" \notin DOMAIN profile \/ profile.embedding = <<>>
                 THEN [S |-> got.S, result |-> None]
            ELSE [S      |-> got.S,
                  result |-> [user_id   |-> user_id,
                              embedding |-> profile.embedding,
                              text      |-> IF "text" \in DOMAIN profile
                                               /\ profile.text # <<>>
                                            THEN profile.text
                                            ELSE IF "pageContent" \in DOMAIN profile
                                                 THEN profile.pageContent
                                                 ELSE <<>>,
                              timestamp |-> profile.timestamp]]
        : got \in {get_vector(S, user_id, LookupProfileId(user_id))}})

\* get_user_profile_embedding while the backing store fails for the collections
\* in down: create_index raises, which _ensure_indexes swallows, find_one
\* raises, and the except clause of get_user_profile_embedding returns None
get_user_profile_embedding_during(S, user_id, down) ==
    IF get_user_collection_name(user_id) \in down
    THEN [S      |-> [db    |-> S.db,
                      cache |-> S.cache \cup {get_user_collection_name(user_id)}],
          result |-> None]
    ELSE get_user_profile_embedding(S, user_id)

\* a plausible slip: only the stripped form of the caller's id is compared
IsCurrentUserStrippedOnly(other_user_id, current_user_id) ==
    other_user_id = ReplaceAll(current_user_id, UserPrefix, <<>>)

\* the skip test of find_similar_users' loop
IsCurrentUser(other_user_id, current_user_id) ==
    LET current_id_sanitized == ReplaceAll(current_user_id, UserPrefix, <<>>)
    IN  other_user_id = current_id_sanitized \/ other_user_id = current_user_id

\* the loop of find_similar_users over the listed collections, from the i-th on;
\* fetched lists the users whose profile the loop asked for
RECURSIVE ScanCollections(_, _, _, _, _, _, _)
ScanCollections(S, current_profile, current_user_id, listing, i, similarities, down) ==
    IF i > Len(listing)
    THEN [S |-> S, similarities |-> similarities, fetched |-> <<>>]
    ELSE
      LET other_user_id == ReplaceFirst(listing[i], UserPrefix, <<>>)
      IN  IF IsCurrentUser(other_user_id, current_user_id)
          THEN ScanCollections(S, current_profile, current_user_id, listing,
                               i + 1, similarities, down)
          ELSE TheOne({
            [ScanCollections(other.S, current_profile, current_user_id,
                listing, i + 1,
                IF other.result = None THEN similarities
                ELSE Append(similarities,
                       [userId      |-> other_user_id,
                        similarity  |-> cosine_similarity(
                                           current_profile.embedding,
                                           other.result.embedding),
                        profileText |-> other.result.text,
                        timestamp   |-> other.result.timestamp]),
                down)
             EXCEPT !.fetched = <<other_user_id>> \o @]
            : other \in {get_user_profile_embedding_during(S, other_user_id, down)}})

\* VectorStoreService.find_similar_users while the backing store fails for the
\* collections in down; listing is what get_all_user_collections returned, in
\* the backing store's order, or None when list_collection_names raised
find_similar_users_during(S, current_user_id, listing, down) ==
    LET current == get_user_profile_embedding_during(S, current_user_id, down)
    IN  IF current.result = None
        THEN [S       |-> current.S,
              result  |-> [success |-> FALSE,
                           error   |-> "Current user has no profile embedding"],
              fetched |-> <<>>]
        ELSE IF listing = None
        THEN [S       |-> current.S,
              result  |-> [raised |-> StorageError],
              fetched |-> <<>>]
        ELSE
          LET scan == ScanCollections(current.S, current.result, current_user_id,
                                      listing.names, 1, <<>>, down)
          IN  [S       |-> scan.S,
               result  |-> [success       |-> TRUE,
                            current_user  |-> current_user_id,
                            similar_users |-> SortBySimilarity(scan.similarities),
                            total_users_compared |-> Len(scan.similarities)],
               fetched |-> scan.fetched]

\* VectorStoreService.find_similar_users with the backing store up
find_similar_users(S, current_user_id, listing) ==
    find_similar_users_during(S, current_user_id, [names |-> listing], {})

\* VectorStoreService.find_common_interests (the similarity part of its result)
\* while the backing store fails for the collections in down
find_common_interests_during(S, user_id1, user_id2, down) ==
    LET p1 == get_user_profile_embedding_during(S, user_id1, down)
        p2 == get_user_profile_embedding_during(p1.S, user_id2, down)
    IN  IF p1.result = None \/ p2.result = None
        THEN [S      |-> p2.S,
              result |-> [success |-> FALSE,
                          error   |-> "One or both users have no profile"]]
        ELSE [S      |-> p2.S,
              result |-> [success    |-> TRUE,
                          userId1    |-> user_id1,
                          userId2    |-> user_id2,
                          similarity |-> cosine_similarity(p1.result.embedding,
                                                           p2.result.embedding)]]

\* VectorStoreService.find_common_interests with the backing store up
find_common_interests(S, user_id1, user_id2) ==
    find_common_interests_during(S, user_id1, user_id2, {})

\* the orders in which the backing store may list the collections of a set
Orderings(names) ==
    {o \in [1..Cardinality(names) -> names] :
        \A i, j \in 1..Cardinality(names) : i # j => o[i] # o[j]}


(***************************************************************************)
(* SyncController._generate_profile_text.  A catalog item is a function    *)
(* from the JSON keys it has to their values; a profile text is the        *)
(* sequence of the pieces the code concatenates.                           *)
(***************************************************************************)

\* JSON null, as the value of a key
JsonNull == [null |-> TRUE]

\* item.get("attributes", {})
AttrsOf(item) ==
    IF "attributes" \in DOMAIN item THEN item.attributes ELSE [f \in {} |-> 0]

\* genre_names[0] if genre_names else "Unknown"
GenreOf(attrs) ==
    IF "genreNames" \in DOMAIN attrs /\ attrs.genreNames # <<>>
    THEN attrs.genreNames[1] ELSE "Unknown"

\* attrs.get(key, 'Unknown')
AttrOrUnknown(attrs, key) == IF key \in DOMAIN attrs THEN attrs[key] ELSE "Unknown"

\* a plausible slip: the loop counts the placeholder as well
RECURSIVE CountedGenresWithPlaceholder(_)
CountedGenresWithPlaceholder(catalog_data) ==
    IF catalog_data = <<>> THEN <<>>
    ELSE LET genre == GenreOf(AttrsOf(Head(catalog_data)))
         IN  (IF genre # "" THEN <<genre>> ELSE <<>>)
                \o CountedGenresWithPlaceholder(Tail(catalog_data))

\* the genres the loop counts, one per item, in input order
RECURSIVE CountedGenres(_)
CountedGenres(catalog_data) ==
    IF catalog_data = <<>> THEN <<>>
    ELSE LET genre == GenreOf(AttrsOf(Head(catalog_data)))
         IN  (IF genre # "" /\ genre # "Unknown" THEN <<genre>> ELSE <<>>)
                \o CountedGenres(Tail(catalog_data))

\* the keys of the genres dict, in insertion order
RECURSIVE FirstSeen(_)
FirstSeen(gs) ==
    IF gs = <<>> THEN <<>>
    ELSE LET rest == FirstSeen(SubSeq(gs, 1, Len(gs) - 1))
             g    == gs[Len(gs)]
         IN  IF \E i \in 1..Len(rest) : rest[i] = g THEN rest ELSE Append(rest, g)

\* genres[g]
GenreCount(gs, g) == Cardinality({i \in 1..Len(gs) : gs[i] = g})

\* a plausible slip: a sort that puts a key before the earlier keys of equal
\* count, as list.sort() followed by list.reverse() does
RECURSIVE SortByCountTiesReversed(_, _)
SortByCountTiesReversed(keys, gs) ==
    IF keys = <<>> THEN <<>>
    ELSE LET sorted == SortByCountTiesReversed(SubSeq(keys, 1, Len(keys) - 1), gs)
             g      == keys[Len(keys)]
             k      == Cardinality({i \in 1..Len(sorted) :
                          GenreCount(gs, sorted[i]) > GenreCount(gs, g)})
         IN  SubSeq(sorted, 1, k) \o <<g>> \o SubSeq(sorted, k + 1, Len(sorted))

\* sorted(genres.keys(), key=lambda x: genres[x], reverse=True): stable
RECURSIVE SortByCount(_, _)
SortByCount(keys, gs) ==
    IF keys = <<>> THEN <<>>
    ELSE LET sorted == SortByCount(SubSeq(keys, 1, Len(keys) - 1), gs)
             g      == keys[Len(keys)]
             k      == Cardinality({i \in 1..Len(sorted) :
                          GenreCount(gs, sorted[i]) >= GenreCount(gs, g)})
         IN  SubSeq(sorted, 1, k) \o <<g>> \o SubSeq(sorted, k + 1, Len(sorted))

\* the number of genres the summary names
TopGenreCount == 3

\* top_genres
TopGenres(catalog_data) ==
    LET gs     == CountedGenres(catalog_data)
        sorted == SortByCount(FirstSeen(gs), gs)
    IN  SubSeq(sorted, 1, IF Len(sorted) < TopGenreCount THEN Len(sorted)
                          ELSE TopGenreCount)

\* ', '.join(names)
RECURSIVE JoinComma(_)
JoinComma(names) ==
    IF names = <<>> THEN <<>>
    ELSE IF Len(names) = 1 THEN names
    ELSE <<Head(names), ", ">> \o JoinComma(Tail(names))

\* a plausible slip: the fields of a segment are set apart by semicolons
RECURSIVE SongSegmentsWithSemicolons(_)
SongSegmentsWithSemicolons(catalog_data) ==
    IF catalog_data = <<>> THEN <<>>
    ELSE LET attrs == AttrsOf(Head(catalog_data))
         IN  <<"Song: ", AttrOrUnknown(attrs, "name"),
               "; Artist: ", AttrOrUnknown(attrs, "artistName"),
               "; Genre: ", GenreOf(attrs), ". ">>
                \o SongSegmentsWithSemicolons(Tail(catalog_data))

\* the "Song: ..., Artist: ..., Genre: .... " segments
RECURSIVE SongSegments(_)
SongSegments(catalog_data) ==
    IF catalog_data = <<>> THEN <<>>
    ELSE LET attrs == AttrsOf(Head(catalog_data))
         IN  <<"Song: ", AttrOrUnknown(attrs, "name"),
               ", Artist: ", AttrOrUnknown(attrs, "artistName"),
               ", Genre: ", GenreOf(attrs), ". ">>
                \o SongSegments(Tail(catalog_data))

\* attrs.get raises AttributeError when "attributes" is null
ProfileTextRaises(catalog_data) ==
    \E i \in 1..Len(catalog_data) : AttrsOf(catalog_data[i]) = JsonNull

\* SyncController._generate_profile_text
_generate_profile_text(catalog_data) ==
    [profile_text |-> <<"User Listening Profile: ">> \o SongSegments(catalog_data)
                        \o <<"Top Genres: ">> \o JoinComma(TopGenres(catalog_data))
                        \o <<".">>,
     top_genres   |-> TopGenres(catalog_data)]


(***************************************************************************)
(* Inputs                                                                  *)
(***************************************************************************)
Id_a == <<"a">>
Id_b == <<"b">>
Id_user_a == UserPrefix \o <<"a">>
Id_user_b == UserPrefix \o <<"b">>
Id_user_user_a == UserPrefix \o UserPrefix \o <<"a">>
Id_a_dash_b == <<"a", "-", "b">>
Id_a_under_b == <<"a", "_", "b">>

\* catalog records
RockTrack ==
    [id |-> "1", attributes |-> [name |-> "Song1", artistName |-> "Artist1",
                                  genreNames |-> <<"Rock", "Music">>]]
JazzTrack ==
    [id |-> "2", attributes |-> [name |-> "Song2", artistName |-> "Artist2",
                                  genreNames |-> <<"Jazz">>]]
BareTrack == [id |-> "3", attributes |-> [name |-> "Song3"]]
NullTrack == [id |-> "4", attributes |-> JsonNull]

\* embeddings a provider may return
SampleEmbeddings == {<<1, 0>>, <<0, 1>>}

\* the ticks the clock may reach
MaxClock == 1

\* the task set of the sync pipeline
Tasks == {"t1", "t2"}

IdleTask == [pc |-> "idle"]

Init ==
    /\ db = [c \in {} |-> EmptyCollection]
    /\ collections = {}
    /\ clock = 0
    /\ call = [op |-> "none"]
    /\ ret = None
    /\ tasks = [t \in Tasks |-> IdleTask]
    /\ landed = [u \in {} |-> None]
    /\ keyst = [pc |-> "idle"]

\* the service's state, and what an operation leaves of it
Store == [db |-> db, cache |-> collections]

Leaves(S) == db' = S.db /\ collections' = S.cache

\* datetime.utcnow() moves on
Tick ==
    /\ clock < MaxClock
    /\ clock' = clock + 1
    /\ UNCHANGED <<db, collections, call, ret, tasks, landed, keyst>>

(***************************************************************************)
(* The profile store called directly                                       *)
(***************************************************************************)
StoreUsers == {Id_a, Id_user_a}

StoreTexts == {_generate_profile_text(<<RockTrack>>).profile_text,
               _generate_profile_text(<<JazzTrack, BareTrack>>).profile_text}

StoreDocIds == {StoreProfileId(u) : u \in StoreUsers}

StoreUserProfile(user_id, profile_text, embedding) ==
    /\ Leaves(store_user_profile(Store, user_id, profile_text, embedding, clock))
    /\ call' = [op |-> "store_user_profile", user_id |-> user_id,
                profile_text |-> profile_text, embedding |-> embedding,
                now |-> clock,
                before |-> FindOne(db, get_user_collection_name(user_id),
                                   StoreProfileId(user_id))]
    /\ ret' = [success |-> TRUE, user_id |-> user_id,
               collection_name |-> get_user_collection_name(user_id),
               upserted |-> FindOne(db, get_user_collection_name(user_id),
                                    StoreProfileId(user_id)) = None]
    /\ UNCHANGED <<clock, tasks, landed, keyst>>

StoreVector(user_id, doc_id, embedding, metadata) ==
    /\ Leaves(store_vector(Store, user_id, doc_id, embedding, metadata, clock))
    /\ call' = [op |-> "store_vector", user_id |-> user_id, doc_id |-> doc_id]
    /\ ret' = [success |-> TRUE, id |-> doc_id,
               upserted |-> FindOne(db, get_user_collection_name(user_id),
                                    doc_id) = None]
    /\ UNCHANGED <<clock, tasks, landed, keyst>>

GetVector(user_id, doc_id) ==
    LET got == get_vector(Store, user_id, doc_id)
    IN  /\ Leaves(got.S)
        /\ call' = [op |-> "get_vector", user_id |-> user_id, doc_id |-> doc_id]
        /\ ret' = got.result
        /\ UNCHANGED <<clock, tasks, landed, keyst>>

Next ==
    \/ Tick
    \/ \E u \in StoreUsers, t \in StoreTexts, e \in SampleEmbeddings \cup {<<>>} :
          StoreUserProfile(u, t, e)
    \/ \E u \in StoreUsers, d \in StoreDocIds, e \in SampleEmbeddings :
          StoreVector(u, d, e, "song")
    \/ \E u \in StoreUsers, d \in StoreDocIds : GetVector(u, d)

Spec == Init /\ [][Next]_vars


(***************************************************************************)
(* Properties of the profile store called directly (Spec)                  *)
(***************************************************************************)

\* C1: right after store_user_profile(u, t, e), get_vector(u, profile_u) returns a
\* document that has exactly the fields of that write, each with the value of
\* that write: nothing an earlier store_user_profile or store_vector wrote to
\* the document is left in it.
UpsertIsFullReplace ==
    call.op = "store_user_profile" =>
        LET got == get_vector(Store, call.user_id,
                              LookupProfileId(call.user_id)).result
        IN  /\ DOMAIN got = {"_id", "text", "embedding", "metadata",
                             "pageContent", "timestamp"}
            /\ got._id = ProfilePrefix \o call.user_id
            /\ got.text = call.profile_text
            /\ got.embedding = call.embedding
            /\ got.metadata = "blob"
            /\ got.pageContent = call.profile_text
            /\ got.timestamp = call.now

\* C1's case: the write replaced a document that an earlier store_user_profile
\* and a store_vector had both written, with another text, embedding and time
UpsertOverEarlierWrites ==
    /\ call.op = "store_user_profile"
    /\ call.before # None
    /\ "text" \in DOMAIN call.before
    /\ call.before.text # call.profile_text
    /\ call.before.embedding # call.embedding
    /\ call.before.metadata = "song"
    /\ call.before.timestamp # call.now
    /\ ~ret.upserted


(***************************************************************************)
(* The similarity routes over stored profiles (SpecSim)                    *)
(***************************************************************************)
SimUsers == {Id_b, Id_user_a, Id_user_b, Id_user_user_a}

\* the ids the login route makes: "user_" and then letters and digits only
LoginIds ==
    {u \in SimUsers :
        /\ StartsWith(u, UserPrefix)
        /\ \A i \in (Len(UserPrefix) + 1)..Len(u) : u[i] \in Alnum}

SimText == _generate_profile_text(<<RockTrack>>).profile_text

\* a sync of user_id has stored its profile
PutProfile(user_id, embedding) ==
    /\ Leaves(store_user_profile(Store, user_id, SimText, embedding, clock))
    /\ call' = [op |-> "store_user_profile", user_id |-> user_id]
    /\ ret' = [success |-> TRUE, user_id |-> user_id]
    /\ UNCHANGED <<clock, tasks, landed, keyst>>

\* GET /api/users/{user_id}/similar
FindSimilarUsers(user_id) ==
    LET current == get_user_profile_embedding(Store, user_id)
    IN  \E listing \in Orderings(get_all_user_collections(current.S.db)) :
          LET found == find_similar_users(Store, user_id, listing)
          IN  /\ Leaves(found.S)
              /\ call' = [op |-> "find_similar_users", user_id |-> user_id,
                          fetches |-> Len(found.fetched)]
              /\ ret' = found.result
              /\ UNCHANGED <<clock, tasks, landed, keyst>>

\* GET /api/users/{user_id}/compare/{other_user_id}
CompareUsers(user_id, other_user_id) ==
    LET found == find_common_interests(Store, user_id, other_user_id)
    IN  /\ Leaves(found.S)
        /\ call' = [op |-> "find_common_interests", user_id |-> user_id,
                    other_user_id |-> other_user_id]
        /\ ret' = found.result
        /\ UNCHANGED <<clock, tasks, landed, keyst>>

NextSim ==
    \/ \E u \in SimUsers, e \in SampleEmbeddings \cup {<<>>} : PutProfile(u, e)
    \/ \E u \in SimUsers : GetVector(u, LookupProfileId(u))
    \/ \E u \in SimUsers : FindSimilarUsers(u)
    \/ \E u, v \in SimUsers : CompareUsers(u, v)

SpecSim == Init /\ [][NextSim]_vars

\* the place of user_id's profile document: its collection and its _id
ProfilePlace(user_id) ==
    <<get_user_collection_name(user_id), StoreProfileId(user_id)>>

\* the place of the document an entry of the ranking was built from
EntryPlace(entry) ==
    <<get_user_collection_name(entry.userId), LookupProfileId(entry.userId)>>

\* user_id has a stored profile with a non-empty embedding
HasEmbeddedProfile(user_id) ==
    LET doc == FindOne(db, ProfilePlace(user_id)[1], ProfilePlace(user_id)[2])
    IN  doc # None /\ "text" \in DOMAIN doc /\ doc.embedding # <<>>

\* the operations of the similarity engine and the profile lookup
ReadOps == {"find_similar_users", "find_common_interests", "get_vector"}

\* every document of a database, by place
DocumentsOf(dbv) ==
    UNION {{<<c, d, dbv[c][d]>> : d \in DOMAIN dbv[c]} : c \in DOMAIN dbv}

\* every stored document, by place
AllDocuments == DocumentsOf(db)


(***************************************************************************)
(* Properties of the similarity routes (SpecSim)                           *)
(***************************************************************************)

\* C2: a successful find_similar_users(u) of a login-made id u returns exactly
\* one entry built from the profile of every other login-made id v that has a
\* stored profile with a non-empty embedding.
SimilarCoversEveryStoredUser ==
    (call.op = "find_similar_users" /\ ret.success /\ call.user_id \in LoginIds) =>
        \A v \in LoginIds \ {call.user_id} :
            HasEmbeddedProfile(v) =>
                Cardinality({i \in 1..Len(ret.similar_users) :
                    EntryPlace(ret.similar_users[i]) = ProfilePlace(v)}) = 1

\* C3: no entry of a successful find_similar_users(u) is built from u's own
\* profile document.
SimilarExcludesCaller ==
    (call.op = "find_similar_users" /\ ret.success) =>
        \A i \in 1..Len(ret.similar_users) :
            EntryPlace(ret.similar_users[i]) # ProfilePlace(call.user_id)

\* C3's case: the caller's id has the user_ prefix, the partition of its own
\* profile and the partition named user_ + its id were both enumerated, and
\* the ranking is not empty
SimilarScannedCallerPartitions ==
    /\ call.op = "find_similar_users"
    /\ ret.success
    /\ call.user_id = Id_user_a
    /\ get_user_collection_name(Id_user_a) \in DOMAIN db
    /\ HasEmbeddedProfile(Id_user_user_a)
    /\ Len(ret.similar_users) >= 1

\* C10: a step of find_similar_users, find_common_interests or get_vector
\* leaves every stored document and the set of listed partitions as they were.
ReadsChangeNothing ==
    [][call'.op \in ReadOps =>
          /\ AllDocuments' = AllDocuments
          /\ get_all_user_collections(db)' = get_all_user_collections(db)]_vars
\* the response of GET /api/users/{user_id}/similar to what find_similar_users
\* returned or raised
similar_route(result) ==
    IF "raised" \in DOMAIN result
    THEN [status |-> 500, detail |-> "Failed to find similar users"]
    ELSE IF ~result.success
    THEN [status |-> 400, detail |-> result.error]
    ELSE [status |-> 200,
          body   |-> [success            |-> TRUE,
                      currentUser        |-> result.current_user,
                      similarUsers       |-> result.similar_users,
                      totalUsersCompared |-> result.total_users_compared]]

\* C12: find_similar_users(u) returns the failure "Current user has no profile
\* embedding", without a ranking and answered with status 400, exactly when u
\* has no stored profile or the stored embedding is empty; it has then asked
\* for the profile of no other user.  Otherwise it returns a ranking.
SimilarNeedsCallerProfile ==
    call.op = "find_similar_users" =>
        IF HasEmbeddedProfile(call.user_id)
        THEN /\ ret.success
             /\ "similar_users" \in DOMAIN ret
             /\ similar_route(ret).status = 200
        ELSE /\ ret = [success |-> FALSE,
                       error   |-> "Current user has no profile embedding"]
             /\ similar_route(ret).status = 400
             /\ call.fetches = 0

\* C12's case: the caller's profile is stored with an empty embedding, and the
\* profiles of two other users are stored with embeddings
SimilarOfCallerWithEmptyEmbedding ==
    /\ call.op = "find_similar_users"
    /\ ~ret.success
    /\ FindOne(db, ProfilePlace(call.user_id)[1], ProfilePlace(call.user_id)[2]) # None
    /\ Cardinality({v \in SimUsers : HasEmbeddedProfile(v)}) >= 2


(***************************************************************************)
(* The partition-key mapping on its own (SpecKey)                          *)
(***************************************************************************)
Id_abc_123 == <<"a", "b", "c", "-", "1", "2", "3">>
Id_user_xyz == UserPrefix \o <<"x", "y", "z">>

\* the pieces user ids are put together from
KeyTokens == {<<"u", "s", "e", "r">>, UserPrefix, <<"a">>, <<"1">>, <<"-">>, <<"_">>}

\* the most pieces in a user id
MaxIdTokens == 2

RECURSIVE TokenStrings(_)
TokenStrings(n) ==
    IF n = 0 THEN {<<>>}
    ELSE LET shorter == TokenStrings(n - 1)
         IN  shorter \cup {s \o t : s \in shorter, t \in KeyTokens}

KeyIds == TokenStrings(MaxIdTokens) \cup {Id_abc_123, Id_user_xyz}

InitKey ==
    /\ db = [c \in {} |-> EmptyCollection]
    /\ collections = {}
    /\ clock = 0
    /\ call = [op |-> "none"]
    /\ ret = None
    /\ tasks = [t \in Tasks |-> IdleTask]
    /\ landed = [u \in {} |-> None]
    /\ keyst \in {[pc |-> "input", a |-> x, b |-> y] : x, y \in KeyIds}

\* get_user_collection_name is applied to both ids
MapKeys ==
    /\ keyst.pc = "input"
    /\ keyst' = [pc    |-> "mapped", a |-> keyst.a, b |-> keyst.b,
                 key_a |-> get_user_collection_name(keyst.a),
                 key_b |-> get_user_collection_name(keyst.b)]
    /\ UNCHANGED <<db, collections, clock, call, ret, tasks, landed>>

NextKey == MapKeys

SpecKey == InitKey /\ [][NextKey]_vars

\* x and y have the same length and differ only where neither has a letter
\* or a digit
SameUpToPunctuation(x, y) ==
    /\ Len(x) = Len(y)
    /\ \A i \in 1..Len(x) : x[i] = y[i] \/ (x[i] \notin Alnum /\ y[i] \notin Alnum)

\* x reads u, s, e, r and then a character that is no letter and no digit
ReadsUserPrefixed(x) ==
    /\ Len(x) >= 5
    /\ SubSeq(x, 1, 4) = <<"u", "s", "e", "r">>
    /\ x[5] \notin Alnum

\* x is y behind a user prefix, and y has no such prefix itself
IsPrefixedFormOf(x, y) ==
    /\ ReadsUserPrefixed(x)
    /\ ~ReadsUserPrefixed(y)
    /\ SameUpToPunctuation(SubSeq(x, 6, Len(x)), y)

\* what the key of user id u has to be
IsKeyOf(k, u) ==
    LET offset == IF ReadsUserPrefixed(u) THEN 0 ELSE 5
    IN  /\ Len(k) = Len(u) + offset
        /\ offset = 5 => SubSeq(k, 1, 5) = <<"u", "s", "e", "r", "_">>
        /\ \A i \in 1..Len(u) :
              k[offset + i] = IF u[i] \in Alnum THEN u[i] ELSE "_"


(***************************************************************************)
(* Properties of the partition-key mapping (SpecKey)                       *)
(***************************************************************************)

\* C4, as stated: two distinct user ids never get the same partition key.
KeyMappingInjective ==
    (keyst.pc = "mapped" /\ keyst.a # keyst.b) => keyst.key_a # keyst.key_b

\* C4, amended: two distinct user ids get the same partition key exactly when
\* they differ only in characters that are no letters and no digits, or one of
\* them is such a variant of the other behind a user prefix that the other does
\* not have.
KeyCollisionsAreSanitizedVariants ==
    (keyst.pc = "mapped" /\ keyst.a # keyst.b) =>
        (keyst.key_a = keyst.key_b <=>
            \/ SameUpToPunctuation(keyst.a, keyst.b)
            \/ IsPrefixedFormOf(keyst.a, keyst.b)
            \/ IsPrefixedFormOf(keyst.b, keyst.a))

\* C4's case: two distinct ids, one with a dash where the other has an
\* underscore, were mapped to the same key
KeysOfDashAndUnderscoreCollide ==
    /\ keyst.pc = "mapped"
    /\ keyst.a = <<"a", "-">>
    /\ keyst.b = <<"a", "_">>
    /\ keyst.key_a = keyst.key_b

\* C5: the key of a user id is the id with every character that is no letter
\* and no digit replaced by "_", behind "user_" unless that already starts
\* with "user_"; the key of "abc-123" is "user_abc_123" and the key of
\* "user_xyz" is "user_xyz".
KeyIsSanitizedAndPrefixedOnce ==
    keyst.pc = "mapped" =>
        /\ IsKeyOf(keyst.key_a, keyst.a)
        /\ IsKeyOf(keyst.key_b, keyst.b)
        /\ keyst.a = Id_abc_123 =>
              keyst.key_a = <<"u","s","e","r","_","a","b","c","_","1","2","3">>
        /\ keyst.b = Id_user_xyz =>
              keyst.key_b = <<"u","s","e","r","_","x","y","z">>

\* C5's case: the two ids the specification names were mapped, one to a key
\* five characters longer and one to a key of its own length
KeysOfNamedIdsMapped ==
    /\ keyst.pc = "mapped"
    /\ keyst.a = Id_abc_123
    /\ keyst.b = Id_user_xyz
    /\ Len(keyst.key_a) = 12
    /\ Len(keyst.key_b) = 8

(***************************************************************************)
(* The sync pipeline (SpecSync).  Each request runs sync_user and, in it,  *)
(* SyncController.sync_user_profile; a request gives way to the others at  *)
(* every await of a network call: the recent-tracks fetch, the catalog     *)
(* fetch, create_index and update_one.                                     *)
(***************************************************************************)

\* two users whose profiles live in the same collection
SyncUsers == {Id_a_dash_b, Id_a_under_b}

\* what GET /me/recent/played/tracks may answer
RecentAnswers == {[data |-> <<>>], [data |-> <<[id |-> "1"], [id |-> "2"]>>]}

\* recent_tracks.get("data", [])
DataOf(response) == IF "data" \in DOMAIN response THEN response.data ELSE <<>>

\* the "data" of what GET /catalog/{storefront}/songs may answer
CatalogAnswers == {<<RockTrack>>, <<JazzTrack, BareTrack>>, <<NullTrack>>}

\* error messages, word by word
ErrUnauthorized == <<"Client", "error", "401", "Unauthorized">>
ErrTimeout == <<"timed", "out">>
ErrNoneType == <<"'NoneType'", "object", "has", "no", "attribute", "'get'">>
ErrModel == <<"model", "unavailable">>
ErrStorage == StorageError
KeyErrorUserId == <<"'user_id'">>

\* what the Apple Music client may raise
UpstreamErrors == {ErrUnauthorized, ErrTimeout}

\* a plausible slip: an empty answer is not checked for
SongsNeverMissing(songs) == FALSE

\* "if not songs" in sync_user_profile
NoSongs(songs) == songs = <<>>

\* "except Exception as e: ... raise" in generate_embedding,
\* store_user_profile and sync_user_profile
Reraised(e) == e

\* sync_user's test of the error message for an expired token
MentionsAuth(e) ==
    \E i \in 1..Len(e) : e[i] \in {"401", "Unauthorized", "expired", "Expired"}

\* the response of POST /api/sync/{user_id} to what sync_user_profile did
sync_user(outcome, user_id) ==
    LET e == IF "raised" \in DOMAIN outcome THEN outcome.raised
             ELSE IF "user_id" \notin DOMAIN outcome.returned THEN KeyErrorUserId
             ELSE None
    IN  IF e = None
        THEN [status |-> 200,
              body   |-> [success        |-> TRUE,
                          userId         |-> outcome.returned.user_id,
                          topGenres      |-> outcome.returned.top_genres,
                          songsProcessed |-> outcome.returned.songs_processed,
                          collectionName |-> get_user_collection_name(user_id)]]
        ELSE IF MentionsAuth(e)
        THEN [status |-> 401, detail |-> <<"Token expired or invalid">>]
        ELSE [status |-> 500, detail |-> <<"Sync failed:">> \o e]

\* a plausible slip: the server applies the update and the call raises then
WriteDocThenRaise(dbv, name, id, fields) == WriteDoc(dbv, name, id, fields)

\* the database after an update_one that raises: nothing was applied
WriteDocRaising(dbv, name, id, fields) == dbv

\* the request has its text and its embedding and waits for the store
Storing(task) == task.pc \in {"indexes", "update"}

\* what the request leaves behind: its arguments, the calls it made, whether
\* it changed a stored document, the error that came up in it, and the results
Report(task, calls, outcome, raised, wrote, replaced) ==
    /\ call' = [op        |-> "sync",
                user_id   |-> task.user_id,
                calls     |-> calls,
                recent    |-> task.recent,
                raised    |-> raised,
                wrote     |-> wrote,
                replaced  |-> replaced,
                overtaken |-> task.overtaken]
    /\ ret' = [controller |-> outcome, http |-> sync_user(outcome, task.user_id)]

\* the request as POST /api/sync/{user_id} starts it
NewTask(user_id) ==
    [pc |-> "recent", user_id |-> user_id, calls |-> {"recent"}, recent |-> None,
     profile |-> None, doc |-> None, wrote |-> FALSE, overtaken |-> FALSE]

\* sync_user finds the session and sync_user_profile asks for the recent tracks
SyncStart(t, user_id) ==
    /\ tasks[t].pc = "idle"
    /\ tasks' = [tasks EXCEPT ![t] = NewTask(user_id)]
    /\ UNCHANGED <<db, collections, clock, call, ret, landed, keyst>>

\* sync_user finds neither a session nor a user with a token
SyncRejected(t, user_id) ==
    /\ tasks[t].pc = "idle"
    /\ call' = [op |-> "sync", user_id |-> user_id, calls |-> {}, recent |-> None,
                raised |-> None, wrote |-> FALSE, replaced |-> FALSE,
                overtaken |-> FALSE]
    /\ ret' = [controller |-> None,
               http |-> [status |-> 401, detail |-> <<"User not found. Please login again.">>]]
    /\ UNCHANGED <<db, collections, clock, tasks, landed, keyst>>

\* get_recent_played_tracks returns
RecentReturns(t, recent_tracks) ==
    /\ tasks[t].pc = "recent"
    /\ LET me == [tasks[t] EXCEPT !.recent = recent_tracks]
       IN  IF NoSongs(DataOf(recent_tracks))
           THEN /\ tasks' = [tasks EXCEPT ![t] = IdleTask]
                /\ Report(me, me.calls,
                          [returned |-> [success |-> FALSE,
                                         message |-> "No recent tracks found"]],
                          None, me.wrote, FALSE)
           ELSE /\ tasks' = [tasks EXCEPT ![t] =
                                [me EXCEPT !.pc = "catalog",
                                           !.calls = @ \cup {"catalog"}]]
                /\ UNCHANGED <<call, ret>>
    /\ UNCHANGED <<db, collections, clock, landed, keyst>>

\* get_recent_played_tracks raises
RecentRaises(t, e) ==
    /\ tasks[t].pc = "recent"
    /\ tasks' = [tasks EXCEPT ![t] = IdleTask]
    /\ Report(tasks[t], tasks[t].calls, [raised |-> Reraised(e)], e,
              tasks[t].wrote, FALSE)
    /\ UNCHANGED <<db, collections, clock, landed, keyst>>

\* get_catalog_songs raises
CatalogRaises(t, e) ==
    /\ tasks[t].pc = "catalog"
    /\ tasks' = [tasks EXCEPT ![t] = IdleTask]
    /\ Report(tasks[t], tasks[t].calls, [raised |-> Reraised(e)], e,
              tasks[t].wrote, FALSE)
    /\ UNCHANGED <<db, collections, clock, landed, keyst>>

\* get_catalog_songs returns; the profile text is built, the embedding is
\* generated (embedded is what generate_embedding does) and store_user_profile
\* runs up to its first network call
CatalogReturnsWith(t, catalog_data, embedded) ==
    /\ tasks[t].pc = "catalog"
    /\ LET me   == tasks[t]
           name == get_user_collection_name(me.user_id)
       IN  IF ProfileTextRaises(catalog_data)
           THEN /\ tasks' = [tasks EXCEPT ![t] = IdleTask]
                /\ Report(me, me.calls, [raised |-> Reraised(ErrNoneType)],
                          ErrNoneType, me.wrote, FALSE)
           ELSE IF "raised" \in DOMAIN embedded
           THEN /\ tasks' = [tasks EXCEPT ![t] = IdleTask]
                /\ Report(me, me.calls \cup {"embedding"},
                          [raised |-> Reraised(embedded.raised)],
                          embedded.raised, me.wrote, FALSE)
           ELSE LET built == _generate_profile_text(catalog_data)
                    profile == [profile_text    |-> built.profile_text,
                                top_genres      |-> built.top_genres,
                                songs_processed |-> Len(catalog_data),
                                embedding       |-> embedded.value]
                    cached == name \in collections
                IN  /\ tasks' = [tasks EXCEPT ![t] =
                          [me EXCEPT
                              !.pc = IF cached THEN "update" ELSE "indexes",
                              !.calls = @ \cup {"embedding", "store"},
                              !.profile = profile,
                              !.doc = IF cached
                                      THEN profile_doc(me.user_id, profile.profile_text,
                                                       profile.embedding, clock)
                                      ELSE None]]
                    /\ UNCHANGED <<call, ret>>
    /\ UNCHANGED <<db, collections, clock, landed>>

CatalogReturns(t, catalog_data, embedded) ==
    /\ CatalogReturnsWith(t, catalog_data, embedded)
    /\ UNCHANGED keyst

\* the create_index calls of _ensure_indexes return (created) or raise, which
\* _ensure_indexes swallows; get_user_collection caches the handle and
\* store_user_profile sends its update
IndexesEnsured(t, created) ==
    /\ tasks[t].pc = "indexes"
    /\ LET me    == tasks[t]
           name  == get_user_collection_name(me.user_id)
           newdb == IF created THEN _ensure_indexes(db, name) ELSE db
       IN  /\ db' = newdb
           /\ collections' = collections \cup {name}
           /\ tasks' = [tasks EXCEPT ![t] =
                 [me EXCEPT
                     !.pc = "update",
                     !.doc = profile_doc(me.user_id, me.profile.profile_text,
                                         me.profile.embedding, clock),
                     !.wrote = @ \/ DocumentsOf(newdb) # DocumentsOf(db)]]
    /\ UNCHANGED <<clock, call, ret, landed, keyst>>

\* update_one is applied and returns; sync_user_profile returns its result
UpdateLands(t) ==
    /\ tasks[t].pc = "update"
    /\ LET me    == tasks[t]
           name  == get_user_collection_name(me.user_id)
           newdb == WriteDoc(db, name, me.doc._id, me.doc)
           pair  == [text |-> me.doc.text, embedding |-> me.doc.embedding]
       IN  /\ db' = newdb
           /\ landed' = [u \in (DOMAIN landed) \cup {me.user_id} |->
                            IF u = me.user_id THEN pair ELSE landed[u]]
           /\ tasks' = [x \in Tasks |->
                 IF x = t THEN IdleTask
                 ELSE IF /\ Storing(tasks[x])
                         /\ tasks[x].user_id = me.user_id
                         /\ tasks[x].profile.profile_text # pair.text
                         /\ tasks[x].profile.embedding # pair.embedding
                 THEN [tasks[x] EXCEPT !.overtaken = TRUE]
                 ELSE tasks[x]]
           /\ Report(me, me.calls,
                     [returned |-> [success         |-> TRUE,
                                    user_id         |-> me.user_id,
                                    profile_text    |-> me.profile.profile_text,
                                    top_genres      |-> me.profile.top_genres,
                                    songs_processed |-> me.profile.songs_processed,
                                    embedding_dim   |-> Len(me.profile.embedding)]],
                     None,
                     me.wrote \/ DocumentsOf(newdb) # DocumentsOf(db),
                     FindOne(db, name, me.doc._id) # None)
    /\ UNCHANGED <<collections, clock, keyst>>

\* update_one raises
UpdateRaises(t, e) ==
    /\ tasks[t].pc = "update"
    /\ LET me    == tasks[t]
           name  == get_user_collection_name(me.user_id)
           newdb == WriteDocRaising(db, name, me.doc._id, me.doc)
       IN  /\ db' = newdb
           /\ tasks' = [tasks EXCEPT ![t] = IdleTask]
           /\ Report(me, me.calls, [raised |-> Reraised(e)], e,
                     me.wrote \/ DocumentsOf(newdb) # DocumentsOf(db), FALSE)
    /\ UNCHANGED <<collections, clock, landed, keyst>>

\* the users whose requests each task runs: two requests of one user may
\* overlap, and so may the requests of two users
TaskUsers == [t \in Tasks |-> IF t = "t1" THEN SyncUsers ELSE {Id_a_dash_b}]

\* what generate_embedding may do
EmbeddingOutcomes ==
    {[value |-> v] : v \in SampleEmbeddings} \cup {[raised |-> ErrModel]}

NextSync ==
    \/ \E t \in Tasks, u \in SyncUsers : u \in TaskUsers[t] /\ SyncStart(t, u)
    \/ \E t \in Tasks, u \in SyncUsers : u \in TaskUsers[t] /\ SyncRejected(t, u)
    \/ \E t \in Tasks, recent_tracks \in RecentAnswers :
          RecentReturns(t, recent_tracks)
    \/ \E t \in Tasks, e \in UpstreamErrors : RecentRaises(t, e)
    \/ \E t \in Tasks, e \in UpstreamErrors : CatalogRaises(t, e)
    \/ \E t \in Tasks, c \in CatalogAnswers, embedded \in EmbeddingOutcomes :
          CatalogReturns(t, c, embedded)
    \/ \E t \in Tasks, created \in BOOLEAN : IndexesEnsured(t, created)
    \/ \E t \in Tasks : UpdateLands(t)
    \/ \E t \in Tasks : UpdateRaises(t, ErrStorage)

\* the clock stands still here: the timestamp of a profile plays no part in
\* what the pipeline does
SpecSync == Init /\ [][NextSync]_vars

\* the places of the stored profile documents
ProfileDocuments ==
    {<<c, d>> \in {<<x[1], x[2]>> : x \in AllDocuments} : "text" \in DOMAIN db[c][d]}

\* the last sync completed without an error and with a result
SyncSucceeded ==
    /\ call.op = "sync"
    /\ "returned" \in DOMAIN ret.controller
    /\ ret.controller.returned.success


(***************************************************************************)
(* Properties of the sync pipeline (SpecSync)                              *)
(***************************************************************************)

\* C6: the store holds exactly one profile document for every user whose sync
\* has landed an upsert and no other profile document, however many upserts
\* landed: at most one per user id.
OneProfilePerUser ==
    /\ Cardinality(ProfileDocuments) = Cardinality(DOMAIN landed)
    /\ \A u \in DOMAIN landed : ProfilePlace(u) \in ProfileDocuments

\* C6's case: an upsert has landed on a profile document that was there
\* already, with the profiles of both users stored
RepeatedUpsertLanded ==
    /\ SyncSucceeded
    /\ call.replaced
    /\ DOMAIN landed = SyncUsers

\* C7: a sync in which an error came up changed no stored document, and
\* sync_user_profile raised that very error.
FailedSyncWritesNothing ==
    (call.op = "sync" /\ call.raised # None) =>
        /\ ~call.wrote
        /\ ret.controller = [raised |-> call.raised]

\* C7's case: the store step of a sync failed while the profiles of its user
\* and of the other user were stored
StoreStepFailed ==
    /\ call.op = "sync"
    /\ call.raised = ErrStorage
    /\ "store" \in call.calls
    /\ DOMAIN landed = SyncUsers

LastLandedUpsertWins ==
    \A u \in DOMAIN landed :
        LET doc == FindOne(db, ProfilePlace(u)[1], ProfilePlace(u)[2])
        IN  /\ doc # None
            /\ doc.text = landed[u].text
            /\ doc.embedding = landed[u].embedding

\* C9's case: a sync landed its upsert after a concurrent sync of the same
\* user, with another text and another embedding, had landed its own, while
\* the other user's profile was stored
OvertakenSyncLanded ==
    /\ SyncSucceeded
    /\ call.overtaken
    /\ call.replaced
    /\ DOMAIN landed = SyncUsers


(***************************************************************************)
(* The similarity routes while the backing store fails (SpecFault)         *)
(***************************************************************************)
Id_c == <<"c">>

\* users whose ids are the names of their collections without the prefix
FaultUsers == {Id_a, Id_b, Id_c}

\* the collections a failure of the backing store may hit
FaultCollections == {get_user_collection_name(u) : u \in FaultUsers}

\* the failures: of no collection, of one, and of the whole store
FaultSets == {{}, FaultCollections} \cup {{c} : c \in FaultCollections}

\* GET /api/users/{user_id}/similar while the backing store fails for the
\* collections in down; lists tells whether list_collection_names answers
FindSimilarUsersDuring(user_id, down, lists) ==
    LET current == get_user_profile_embedding_during(Store, user_id, down)
        listings == IF lists
                    THEN {[names |-> o] :
                            o \in Orderings(get_all_user_collections(current.S.db))}
                    ELSE {None}
    IN  \E listing \in listings :
          LET found == find_similar_users_during(Store, user_id, listing, down)
          IN  /\ Leaves(found.S)
              /\ call' = [op |-> "find_similar_users", user_id |-> user_id,
                          down |-> down, lists |-> lists]
              /\ ret' = found.result
              /\ UNCHANGED <<clock, tasks, landed, keyst>>

\* GET /api/users/{user_id}/compare/{other_user_id} while the backing store
\* fails for the collections in down
CompareUsersDuring(user_id, other_user_id, down) ==
    LET found == find_common_interests_during(Store, user_id, other_user_id, down)
    IN  /\ Leaves(found.S)
        /\ call' = [op |-> "find_common_interests", user_id |-> user_id,
                    other_user_id |-> other_user_id, down |-> down]
        /\ ret' = found.result
        /\ UNCHANGED <<clock, tasks, landed, keyst>>

NextFault ==
    \/ \E u \in FaultUsers, e \in SampleEmbeddings : PutProfile(u, e)
    \/ \E u \in FaultUsers, down \in FaultSets, lists \in BOOLEAN :
          FindSimilarUsersDuring(u, down, lists)
    \/ \E u, v \in FaultUsers, down \in FaultSets :
          CompareUsersDuring(u, v, down)

SpecFault == Init /\ [][NextFault]_vars

\* a read of a profile failed in the last operation
ProfileReadFailed ==
    \/ /\ call.op = "find_common_interests"
       /\ \/ get_user_collection_name(call.user_id) \in call.down
          \/ get_user_collection_name(call.other_user_id) \in call.down
    \/ /\ call.op = "find_similar_users"
       /\ \/ get_user_collection_name(call.user_id) \in call.down
          \/ /\ HasEmbeddedProfile(call.user_id)
             /\ call.lists
             /\ \E c \in get_all_user_collections(db) \cap call.down :
                   c # get_user_collection_name(call.user_id)


(***************************************************************************)
(* Properties of the similarity routes under failures (SpecFault)          *)
(***************************************************************************)

\* C11: a find_similar_users or find_common_interests in which a read of a
\* profile failed raises the storage error; it returns neither a result
\* without a profile nor a ranking.
StorageFailureReachesCaller ==
    ProfileReadFailed => ret = [raised |-> StorageError]


(***************************************************************************)
(* The ranking of find_similar_users (SpecRank): one caller, three         *)
(* candidates, embeddings that give equal, different and negative          *)
(* similarities, every order in which the store may list the collections.  *)
(***************************************************************************)
Id_d == <<"d">>
RankUsers == {Id_a, Id_b, Id_c, Id_d}
RankCallers == {Id_a}
RankEmbeddings == {<<1, 0>>, <<1, 1>>, <<-1, 0>>}

\* GET /api/users/{user_id}/similar, with the listing the store gave
FindSimilarUsersListed(user_id) ==
    LET current == get_user_profile_embedding(Store, user_id)
    IN  \E listing \in Orderings(get_all_user_collections(current.S.db)) :
          LET found == find_similar_users(Store, user_id, listing)
          IN  /\ Leaves(found.S)
              /\ call' = [op |-> "find_similar_users", user_id |-> user_id,
                          listing |-> [names |-> listing]]
              /\ ret' = found.result
              /\ UNCHANGED <<clock, tasks, landed, keyst>>

NextRank ==
    \/ \E u \in RankUsers, e \in RankEmbeddings : PutProfile(u, e)
    \/ \E u \in RankCallers : FindSimilarUsersListed(u)

SpecRank == Init /\ [][NextRank]_vars

\* the place of an entry's partition in the listing the scan went through
ListedAt(listing, entry) ==
    CHOOSE k \in 1..Len(listing) : listing[k] = UserPrefix \o entry.userId

Ranked == call.op = "find_similar_users" /\ "similar_users" \in DOMAIN ret

\* C13: the returned list is ordered by non-increasing similarity, and entries
\* of equal similarity keep the order in which their partitions were listed.
RankingIsStableDescending ==
    Ranked =>
        \A i, j \in 1..Len(ret.similar_users) :
            i < j =>
              LET x == ret.similar_users[i]
                  y == ret.similar_users[j]
              IN  /\ ~SimLess(x.similarity, y.similarity)
                  /\ ~SimLess(y.similarity, x.similarity) =>
                        ListedAt(call.listing.names, x) < ListedAt(call.listing.names, y)

\* C13's case: three candidates ranked, two of them equal and listed before
\* a third one that is ranked above them
RankingWithTieReordered ==
    /\ Ranked
    /\ Len(ret.similar_users) = 3
    /\ LET r == ret.similar_users
       IN  /\ SimLess(r[2].similarity, r[1].similarity)
           /\ ~SimLess(r[3].similarity, r[2].similarity)
           /\ ListedAt(call.listing.names, r[1]) > ListedAt(call.listing.names, r[3])

(***************************************************************************)
(* cosine_similarity as Python computes it: on binary64 floats, every      *)
(* operation rounded to nearest, ties to even.  A natural number too large *)
(* for a machine integer is the sequence of its digits in base Limb, the   *)
(* lowest first and the highest not 0; a float is a sign, a mantissa of    *)
(* MantissaBits bits and the exponent of the mantissa's unit.  The         *)
(* exponent is not limited: the vectors drawn below stay far from          *)
(* overflow and underflow.                                                 *)
(***************************************************************************)
Limb == 32768
LimbBits == 15
MantissaBits == 53

RECURSIVE BigOf(_)
BigOf(n) == IF n = 0 THEN <<>> ELSE <<n % Limb>> \o BigOf(n \div Limb)

RECURSIVE TrimLimbs(_)
TrimLimbs(a) ==
    IF a = <<>> THEN <<>>
    ELSE IF a[Len(a)] = 0 THEN TrimLimbs(SubSeq(a, 1, Len(a) - 1))
    ELSE a

RECURSIVE AddLimbs(_, _, _)
AddLimbs(a, b, carry) ==
    IF a = <<>> /\ b = <<>> THEN (IF carry = 0 THEN <<>> ELSE <<carry>>)
    ELSE LET x == IF a = <<>> THEN 0 ELSE Head(a)
             y == IF b = <<>> THEN 0 ELSE Head(b)
             t == x + y + carry
         IN  <<t % Limb>> \o AddLimbs(IF a = <<>> THEN <<>> ELSE Tail(a),
                                      IF b = <<>> THEN <<>> ELSE Tail(b),
                                      t \div Limb)

BigAdd(a, b) == AddLimbs(a, b, 0)

\* a - b for a >= b
RECURSIVE SubLimbs(_, _, _)
SubLimbs(a, b, borrow) ==
    IF a = <<>> THEN <<>>
    ELSE LET y == IF b = <<>> THEN 0 ELSE Head(b)
             t == Head(a) - y - borrow
         IN  <<IF t < 0 THEN t + Limb ELSE t>>
             \o SubLimbs(Tail(a), IF b = <<>> THEN <<>> ELSE Tail(b),
                         IF t < 0 THEN 1 ELSE 0)

BigSub(a, b) == TrimLimbs(SubLimbs(a, b, 0))

RECURSIVE LessFrom(_, _, _)
LessFrom(a, b, i) ==
    IF i = 0 THEN FALSE
    ELSE IF a[i] # b[i] THEN a[i] < b[i]
    ELSE LessFrom(a, b, i - 1)

BigLess(a, b) ==
    IF Len(a) # Len(b) THEN Len(a) < Len(b) ELSE LessFrom(a, b, Len(a))

RECURSIVE MulLimb(_, _, _)
MulLimb(a, d, carry) ==
    IF a = <<>> THEN (IF carry = 0 THEN <<>> ELSE <<carry>>)
    ELSE LET t == Head(a) * d + carry
         IN  <<t % Limb>> \o MulLimb(Tail(a), d, t \div Limb)

ShiftLimb(a) == IF a = <<>> THEN <<>> ELSE <<0>> \o a

RECURSIVE BigMul(_, _)
BigMul(a, b) ==
    IF a = <<>> \/ b = <<>> THEN <<>>
    ELSE BigAdd(TrimLimbs(MulLimb(a, Head(b), 0)), ShiftLimb(BigMul(a, Tail(b))))

\* 2^k
Pow2(k) ==
    [i \in 1..(k \div LimbBits + 1) |->
        IF i = k \div LimbBits + 1 THEN 2 ^ (k % LimbBits) ELSE 0]

\* the number of binary digits of a
BitLen(a) ==
    IF a = <<>> THEN 0
    ELSE LimbBits * (Len(a) - 1)
         + (CHOOSE k \in 1..LimbBits :
               2 ^ (k - 1) <= a[Len(a)] /\ a[Len(a)] < 2 ^ k)

\* N * 2^k
ShiftLeft(N, k) ==
    LET s    == k \div LimbBits
        up   == 2 ^ (k % LimbBits)
        down == 2 ^ (LimbBits - (k % LimbBits))
    IN  TrimLimbs([i \in 1..(Len(N) + s + 1) |->
            IF i <= s THEN 0
            ELSE (IF i - s <= Len(N) THEN (N[i - s] % down) * up ELSE 0)
                 + (IF i - s >= 2 THEN N[i - s - 1] \div down ELSE 0)])

\* quotient q and remainder r of N by 2^k
DivPow2(N, k) ==
    LET s    == k \div LimbBits
        low  == 2 ^ (k % LimbBits)
        high == 2 ^ (LimbBits - (k % LimbBits))
    IN  [q |-> TrimLimbs([i \in 1..(Len(N) - s) |->
                  N[i + s] \div low
                  + (IF i + s < Len(N) THEN (N[i + s + 1] % low) * high ELSE 0)]),
         r |-> TrimLimbs([i \in 1..(IF Len(N) <= s THEN Len(N) ELSE s + 1) |->
                  IF i <= s THEN N[i] ELSE N[i] % low])]

\* one digit of a long division in base Limb by a D whose highest digit is at
\* least Limb / 2: the digit a is put below what is left, st.r, and the
\* quotient digit is found from the highest digits, at most 2 too large
DivDigit(st, D, a) ==
    TheOne(
      {IF BigLess(rem, D) THEN [q |-> <<0>> \o st.q, r |-> rem]
       ELSE TheOne(
         {IF ~BigLess(rem, P0)
          THEN [q |-> <<qhat>> \o st.q, r |-> BigSub(rem, P0)]
          ELSE TheOne(
            {IF ~BigLess(rem, P1)
             THEN [q |-> <<qhat - 1>> \o st.q, r |-> BigSub(rem, P1)]
             ELSE [q |-> <<qhat - 2>> \o st.q, r |-> BigSub(rem, BigSub(P1, D))] :
               P1 \in {BigSub(P0, D)}}) :
            qhat \in {LET top == IF Len(rem) > Len(D)
                                 THEN rem[Len(D) + 1] * Limb + rem[Len(D)]
                                 ELSE rem[Len(D)]
                      IN  IF top \div D[Len(D)] < Limb THEN top \div D[Len(D)]
                          ELSE Limb - 1},
            P0 \in {LET top == IF Len(rem) > Len(D)
                               THEN rem[Len(D) + 1] * Limb + rem[Len(D)]
                               ELSE rem[Len(D)]
                    IN  TrimLimbs(MulLimb(D,
                           IF top \div D[Len(D)] < Limb THEN top \div D[Len(D)]
                           ELSE Limb - 1, 0))}}) :
         rem \in {TrimLimbs(<<a>> \o st.r)}})

\* the digits A[j] down to A[1]
RECURSIVE DivDigits(_, _, _, _)
DivDigits(st, D, A, j) ==
    IF j = 0 THEN st
    ELSE TheOne({DivDigits(next, D, A, j - 1) : next \in {DivDigit(st, D, A[j])}})

\* quotient q and remainder r of A by D: both are scaled until the highest
\* digit of D is at least Limb / 2, which leaves the quotient as it is
BigDivMod(A, D) ==
    TheOne({[q |-> TrimLimbs(st.q), r |-> DivPow2(st.r, s).q] :
        s \in {LimbBits - BitLen(<<D[Len(D)]>>)},
        st \in {DivDigits([q |-> <<>>, r |-> <<>>],
                          ShiftLeft(D, LimbBits - BitLen(<<D[Len(D)]>>)),
                          ShiftLeft(A, LimbBits - BitLen(<<D[Len(D)]>>)),
                          Len(ShiftLeft(A, LimbBits - BitLen(<<D[Len(D)]>>))))}})

\* the integer part of the square root, one binary digit at a time
SqrtStep(A, i, r) ==
    TheOne({IF BigLess(A, BigMul(c, c)) THEN r ELSE c :
              c \in {BigAdd(r, Pow2(i))}})

\* the digits hi down to lo, as the upper half and then the lower half
RECURSIVE SqrtFrom(_, _, _, _)
SqrtFrom(A, r, hi, lo) ==
    IF hi < lo THEN r
    ELSE IF hi = lo THEN SqrtStep(A, hi, r)
    ELSE TheOne({SqrtFrom(A, upper, (hi + lo) \div 2, lo) :
                   upper \in {SqrtFrom(A, r, hi, (hi + lo) \div 2 + 1)}})

BigSqrt(A) == SqrtFrom(A, <<>>, BitLen(A) \div 2, 0)

FloatZero == [neg |-> FALSE, m |-> <<>>, e |-> 0]
FloatOne == [neg |-> FALSE, m |-> Pow2(MantissaBits - 1), e |-> 1 - MantissaBits]

\* N / 2^d rounded to a whole number, ties to even; a tie counts as above the
\* half when sticky
RoundShift(N, d, sticky) ==
    TheOne({LET half == Pow2(d - 1)
                up   == \/ BigLess(half, dm.r)
                        \/ dm.r = half /\ (sticky \/ (dm.q # <<>> /\ dm.q[1] % 2 = 1))
            IN  IF up THEN BigAdd(dm.q, <<1>>) ELSE dm.q :
              dm \in {DivPow2(N, d)}})

\* the float nearest to N * 2^e, or to a value just above it when sticky
\* (sticky only with an N of more than MantissaBits + 1 digits)
RoundToFloat(neg, N, e, sticky) ==
    IF N = <<>> THEN FloatZero
    ELSE TheOne(
      {IF len <= MantissaBits
       THEN [neg |-> neg, m |-> ShiftLeft(n, MantissaBits - len),
             e |-> e - (MantissaBits - len)]
       ELSE TheOne(
         {IF BitLen(q) > MantissaBits
          THEN [neg |-> neg, m |-> Pow2(MantissaBits - 1),
                e |-> e + (len - MantissaBits) + 1]
          ELSE [neg |-> neg, m |-> q, e |-> e + (len - MantissaBits)] :
            q \in {RoundShift(n, len - MantissaBits, sticky)}}) :
         n \in {N}, len \in {BitLen(N)}})

\* the float of a number written without a fraction
FloatOf(n) == RoundToFloat(n < 0, BigOf(IF n < 0 THEN -n ELSE n), 0, FALSE)

\* x * y
FloatMul(x, y) ==
    RoundToFloat(x.neg # y.neg, BigMul(x.m, y.m), x.e + y.e, FALSE)

\* x + y: the exact sum on the smaller exponent, then rounded
FloatAdd(x, y) ==
    IF x.m = <<>> THEN y
    ELSE IF y.m = <<>> THEN x
    ELSE LET e  == IF x.e < y.e THEN x.e ELSE y.e
             X  == ShiftLeft(x.m, x.e - e)
             Y  == ShiftLeft(y.m, y.e - e)
         IN  IF x.neg = y.neg THEN RoundToFloat(x.neg, BigAdd(X, Y), e, FALSE)
             ELSE IF BigLess(X, Y) THEN RoundToFloat(y.neg, BigSub(Y, X), e, FALSE)
             ELSE RoundToFloat(x.neg, BigSub(X, Y), e, FALSE)

\* x / y for y # 0
FloatDiv(x, y) ==
    IF x.m = <<>> THEN FloatZero
    ELSE TheOne({RoundToFloat(x.neg # y.neg, dm.q,
                              x.e - y.e - (MantissaBits + 3), dm.r # <<>>) :
                   dm \in {BigDivMod(ShiftLeft(x.m, MantissaBits + 3), y.m)}})

\* math.sqrt(x) for x >= 0
FloatSqrt(x) ==
    IF x.m = <<>> THEN FloatZero
    ELSE LET k == IF (x.e - (MantissaBits + 3)) % 2 = 0
                  THEN MantissaBits + 3 ELSE MantissaBits + 4
         IN  TheOne({RoundToFloat(FALSE, r, (x.e - k) \div 2, BigMul(r, r) # A) :
                       A \in {ShiftLeft(x.m, k)},
                       r \in {BigSqrt(ShiftLeft(x.m, k))}})

\* sum(x * y for x, y in zip(a, b)), from the left, starting at 0
RECURSIVE FloatDot(_, _, _)
FloatDot(a, b, acc) ==
    IF a = <<>> \/ b = <<>> THEN acc
    ELSE TheOne({FloatDot(Tail(a), Tail(b), next) :
                   next \in {FloatAdd(acc, FloatMul(FloatOf(Head(a)),
                                                    FloatOf(Head(b))))}})

\* a plausible slip: the dot product is divided by the first magnitude only
CosineOverOneMagnitude(vec_a, vec_b) ==
    IF vec_a = <<>> \/ vec_b = <<>> THEN FloatZero
    ELSE IF Len(vec_a) # Len(vec_b) THEN FloatZero
    ELSE TheOne(
      {IF magnitude_a = FloatZero THEN FloatZero
       ELSE FloatDiv(dot_product, magnitude_a) :
         dot_product \in {FloatDot(vec_a, vec_b, FloatZero)},
         magnitude_a \in {FloatSqrt(FloatDot(vec_a, vec_a, FloatZero))}})

\* VectorStoreService.cosine_similarity on floats
cosine_similarity_float(vec_a, vec_b) ==
    IF vec_a = <<>> \/ vec_b = <<>> THEN FloatZero
    ELSE IF Len(vec_a) # Len(vec_b) THEN FloatZero
    ELSE TheOne(
      {IF magnitude_a = FloatZero \/ magnitude_b = FloatZero
       THEN FloatZero
       ELSE FloatDiv(dot_product, FloatMul(magnitude_a, magnitude_b)) :
         dot_product \in {FloatDot(vec_a, vec_b, FloatZero)},
         magnitude_a \in {FloatSqrt(FloatDot(vec_a, vec_a, FloatZero))},
         magnitude_b \in {FloatSqrt(FloatDot(vec_b, vec_b, FloatZero))}})

(***************************************************************************)
(* cosine_similarity on its own (SpecCos): both arguments drawn from       *)
(* CosineVectors, the function applied in both orders.                     *)
(***************************************************************************)
CosineVectors ==
    {<<>>, <<0>>, <<0, 0>>, <<7>>, <<1, 0>>, <<-1, 0>>, <<1, 1>>, <<1, 2>>,
     <<3, 4>>, <<-2, 3>>, <<1, 1, 1>>, <<1, 2, 3>>}

InitCos ==
    /\ db = [c \in {} |-> EmptyCollection]
    /\ collections = {}
    /\ clock = 0
    /\ call \in {[op |-> "cosine_similarity", vec_a |-> a, vec_b |-> b] :
                    a, b \in CosineVectors}
    /\ ret = None
    /\ tasks = [t \in Tasks |-> IdleTask]
    /\ landed = [u \in {} |-> None]
    /\ keyst = [pc |-> "input"]

\* cosine_similarity(vec_a, vec_b) and cosine_similarity(vec_b, vec_a)
Cosine ==
    /\ keyst.pc = "input"
    /\ ret' = [ab |-> cosine_similarity_float(call.vec_a, call.vec_b),
               ba |-> cosine_similarity_float(call.vec_b, call.vec_a)]
    /\ keyst' = [pc |-> "computed"]
    /\ UNCHANGED <<db, collections, clock, call, tasks, landed>>

NextCos == Cosine

SpecCos == InitCos /\ [][NextCos]_vars

AllZero(v) == \A i \in 1..Len(v) : v[i] = 0

\* C14: cosine_similarity(a, b) = cosine_similarity(b, a); the result is 1.0
\* when a = b and a is not all zero; it is 0.0 when a or b is empty or all
\* zero or their lengths differ.
CosineContract ==
    keyst.pc = "computed" =>
        /\ ret.ab = ret.ba
        /\ (call.vec_a = call.vec_b /\ ~AllZero(call.vec_a)) => ret.ab = FloatOne
        /\ (\/ AllZero(call.vec_a)
            \/ AllZero(call.vec_b)
            \/ Len(call.vec_a) # Len(call.vec_b)) => ret.ab = FloatZero

(***************************************************************************)
(* VectorStoreService._parse_profile_text.  A profile text is read here    *)
(* character by character: a sequence of one-character strings.            *)
(***************************************************************************)
LowerLetters == <<"a", "b", "c", "d", "e", "f", "g", "h", "i", "j", "k", "l", "m", "n", "o", "p", "q", "r", "s", "t", "u", "v", "w", "x", "y", "z">>
UpperLetters == <<"A", "B", "C", "D", "E", "F", "G", "H", "I", "J", "K", "L", "M", "N", "O", "P", "Q", "R", "S", "T", "U", "V", "W", "X", "Y", "Z">>

\* str.lower()
lower(s) ==
    [i \in 1..Len(s) |->
        IF s[i] \in UpperCase
        THEN LowerLetters[CHOOSE k \in 1..Len(UpperLetters) : UpperLetters[k] = s[i]]
        ELSE s[i]]

\* the characters \s matches and str.strip() removes
Whitespace == {" ", "\t", "\n"}

Least(S) == CHOOSE x \in S : \A y \in S : x <= y
Greatest(S) == CHOOSE x \in S : \A y \in S : x >= y

\* str.strip()
strip(s) ==
    LET inked == {i \in 1..Len(s) : s[i] \notin Whitespace}
    IN  IF inked = {} THEN <<>> ELSE SubSeq(s, Least(inked), Greatest(inked))

\* the first position from p on whose character is in (not in) a set, or
\* Len(text) + 1
FirstIn(text, p, chars) ==
    Least({i \in p..Len(text) : text[i] \in chars} \cup {Len(text) + 1})
FirstNotIn(text, p, chars) ==
    Least({i \in p..Len(text) : text[i] \notin chars} \cup {Len(text) + 1})

\* the keyword stands at position p, in any letter case (re.IGNORECASE)
KeywordAt(text, keyword, p) ==
    /\ p + Len(keyword) - 1 <= Len(text)
    /\ lower(SubSeq(text, p, p + Len(keyword) - 1)) = lower(keyword)

\* the match of  keyword\s*([^stop]+)  that starts at p: \s* takes all the
\* whitespace after the keyword and the group runs up to the next stop
\* character; when a stop character or the end follows the whitespace, \s*
\* gives its last character back and the group is that one character; with
\* nothing to give back there is no match.  [first, last] is the group.
MatchAt(text, keyword, stop, p) ==
    LET after == p + Len(keyword)
        w     == FirstNotIn(text, after, Whitespace)
    IN  IF ~KeywordAt(text, keyword, p) THEN [ok |-> FALSE]
        ELSE IF w <= Len(text) /\ text[w] # stop
        THEN [ok |-> TRUE, first |-> w, last |-> FirstIn(text, w, {stop}) - 1]
        ELSE IF w > after
        THEN [ok |-> TRUE, first |-> w - 1, last |-> w - 1]
        ELSE [ok |-> FALSE]

\* re.findall(keyword\s*([^stop]+), text, re.IGNORECASE) from position p on:
\* the groups of the matches, leftmost first, none overlapping another
RECURSIVE FindAllFrom(_, _, _, _)
FindAllFrom(text, keyword, stop, p) ==
    LET starts == {i \in p..Len(text) : MatchAt(text, keyword, stop, i).ok}
    IN  IF starts = {} THEN <<>>
        ELSE LET found == MatchAt(text, keyword, stop, Least(starts))
             IN  <<SubSeq(text, found.first, found.last)>>
                    \o FindAllFrom(text, keyword, stop, found.last + 1)

\* a plausible slip: every stripped match is kept, also one already listed
CollectRepeating(matches) ==
    SelectSeq([i \in 1..Len(matches) |-> strip(matches[i])], LAMBDA v : v # <<>>)

\* for match in matches: v = match.strip(); if v and v not in list: append
RECURSIVE Collect(_)
Collect(matches) ==
    IF matches = <<>> THEN <<>>
    ELSE LET list == Collect(SubSeq(matches, 1, Len(matches) - 1))
             v    == strip(matches[Len(matches)])
         IN  IF v # <<>> /\ ~(\E i \in 1..Len(list) : list[i] = v)
             THEN Append(list, v) ELSE list

KeyGenre == <<"G", "e", "n", "r", "e", ":">>
KeyArtist == <<"A", "r", "t", "i", "s", "t", ":">>
KeySong == <<"S", "o", "n", "g", ":">>
KeyAlbum == <<"A", "l", "b", "u", "m", ":">>

NoDetails == [genres |-> <<>>, artists |-> <<>>, songs |-> <<>>, albums |-> <<>>]

\* VectorStoreService._parse_profile_text
_parse_profile_text(profile_text) ==
    IF profile_text = <<>> THEN NoDetails
    ELSE [genres  |-> Collect(FindAllFrom(profile_text, KeyGenre, ".", 1)),
          artists |-> Collect(FindAllFrom(profile_text, KeyArtist, ",", 1)),
          songs   |-> Collect(FindAllFrom(profile_text, KeySong, ",", 1)),
          albums  |-> Collect(FindAllFrom(profile_text, KeyAlbum, ",", 1))]

(***************************************************************************)
(* VectorStoreService.find_common_interests with all it reports            *)
(***************************************************************************)

\* not profile1 or not profile2
EitherMissing(profile1, profile2) == profile1 = None \/ profile2 = None

\* a plausible slip: the values are compared as they are
SameExactly(x, y) == x = y

\* y.lower() == x.lower()
SameIgnoringCase(x, y) == lower(x) = lower(y)

\* a plausible slip: only the first of the other user's values is looked at
CommonValuesWithFirst(mine, theirs) ==
    SelectSeq(mine, LAMBDA x : theirs # <<>> /\ SameIgnoringCase(x, theirs[1]))

\* [x for x in mine if any(y.lower() == x.lower() for y in theirs)]
CommonValues(mine, theirs) ==
    SelectSeq(mine, LAMBDA x : \E i \in 1..Len(theirs) : SameIgnoringCase(x, theirs[i]))

RECURSIVE BigToInt(_)
BigToInt(a) == IF a = <<>> THEN 0 ELSE Head(a) + Limb * BigToInt(Tail(a))

\* f"{similarity * 100:.2f}": the sign and the number of hundredths the
\* digits of the string spell
PercentText(similarity) ==
    LET x == FloatMul(similarity, FloatOf(100))
        n == BigMul(x.m, BigOf(100))
    IN  [neg        |-> x.neg,
         hundredths |-> IF x.m = <<>> THEN 0
                        ELSE IF x.e >= 0 THEN BigToInt(BigMul(n, Pow2(x.e)))
                        ELSE BigToInt(RoundShift(n, -x.e, FALSE))]

\* VectorStoreService.find_common_interests
find_common_interests_report(S, user_id1, user_id2) ==
    LET p1 == get_user_profile_embedding(S, user_id1)
        p2 == get_user_profile_embedding(p1.S, user_id2)
    IN  IF EitherMissing(p1.result, p2.result)
        THEN [S      |-> p2.S,
              result |-> [success |-> FALSE,
                          error   |-> "One or both users have no profile"]]
        ELSE TheOne(
          {[S      |-> p2.S,
            result |-> [success         |-> TRUE,
                        userId1         |-> user_id1,
                        userId2         |-> user_id2,
                        similarity      |->
                            PercentText(cosine_similarity_float(
                                p1.result.embedding, p2.result.embedding)),
                        commonInterests |->
                            [genres  |-> CommonValues(details1.genres, details2.genres),
                             artists |-> CommonValues(details1.artists, details2.artists),
                             songs   |-> CommonValues(details1.songs, details2.songs),
                             albums  |-> CommonValues(details1.albums, details2.albums)],
                        user1Details    |-> details1,
                        user2Details    |-> details2]] :
             details1 \in {_parse_profile_text(p1.result.text)},
             details2 \in {_parse_profile_text(p2.result.text)}})

\* the response of GET /api/users/{user_id}/compare/{other_user_id} to what
\* find_common_interests returned or raised
compare_route(result) ==
    IF "raised" \in DOMAIN result
    THEN [status |-> 500, detail |-> "Failed to compare users"]
    ELSE IF ~result.success
    THEN [status |-> 400, detail |-> result.error]
    ELSE [status |-> 200, body |-> result]

(***************************************************************************)
(* Comparing two users (SpecCompare): two users, each with no profile or   *)
(* one of CompareProfiles, compared in both orders.                        *)
(***************************************************************************)
TextRockJazz == <<"G", "e", "n", "r", "e", ":", " ", "R", "o", "c", "k", ".", " ", "G", "e", "n", "r", "e", ":", " ", "J", "a", "z", "z", ".", " ", "A", "r", "t", "i", "s", "t", ":", " ", "A", "b", "b", "a", ",", " ", "S", "o", "n", "g", ":", " ", "S", "u", "n", ",", " ", "A", "l", "b", "u", "m", ":", " ", "O", "n", "e", ",">>
TextJazzRock == <<"g", "e", "n", "r", "e", ":", " ", "j", "a", "z", "z", ".", " ", "G", "e", "n", "r", "e", ":", " ", " ", "R", "O", "C", "K", " ", ".", " ", "G", "e", "n", "r", "e", ":", " ", "P", "o", "p", ".", " ", "A", "r", "t", "i", "s", "t", ":", " ", "A", "B", "B", "A", ",", " ", "S", "o", "n", "g", ":", " ", "M", "o", "o", "n", ",">>
TextRockTwice == <<"G", "e", "n", "r", "e", ":", " ", "r", "o", "c", "k", ".", " ", "G", "e", "n", "r", "e", ":", " ", "R", "o", "c", "k", ".", " ", "G", "e", "n", "r", "e", ":", " ", "r", "o", "c", "k", ".", " ", "A", "r", "t", "i", "s", "t", ":", " ", "K", "i", "s", "s", ",", " ", "A", "l", "b", "u", "m", ":", " ", "o", "n", "e", " ", ",">>

CompareUserIds == {Id_a, Id_b}

CompareProfiles ==
    {[text |-> TextRockJazz,  embedding |-> <<1, 0>>],
     [text |-> TextJazzRock,  embedding |-> <<-1, 0>>],
     [text |-> TextRockTwice, embedding |-> <<1, 1>>],
     [text |-> <<>>,          embedding |-> <<1, 2>>],
     [text |-> TextRockJazz,  embedding |-> <<>>]}

\* a sync of user_id has stored this profile
PutProfileText(user_id, profile) ==
    /\ Leaves(store_user_profile(Store, user_id, profile.text, profile.embedding, clock))
    /\ call' = [op |-> "store_user_profile", user_id |-> user_id]
    /\ ret' = [success |-> TRUE, user_id |-> user_id]
    /\ UNCHANGED <<clock, tasks, landed, keyst>>

\* GET /api/users/{user_id}/compare/{other_user_id}
CompareUsersReport(user_id, other_user_id) ==
    LET found == find_common_interests_report(Store, user_id, other_user_id)
    IN  /\ Leaves(found.S)
        /\ call' = [op |-> "find_common_interests", user_id |-> user_id,
                    other_user_id |-> other_user_id]
        /\ ret' = found.result
        /\ UNCHANGED <<clock, tasks, landed, keyst>>

NextCompare ==
    \/ \E u \in CompareUserIds, p \in CompareProfiles : PutProfileText(u, p)
    \/ \E u, v \in CompareUserIds : u # v /\ CompareUsersReport(u, v)

SpecCompare == Init /\ [][NextCompare]_vars

Compared == call.op = "find_common_interests"

\* the stored profile document of a user
StoredProfile(user_id) ==
    FindOne(db, ProfilePlace(user_id)[1], ProfilePlace(user_id)[2])

ListNames == {"genres", "artists", "songs", "albums"}

\* C15: find_common_interests(u1, u2) returns the failure "One or both users
\* have no profile", answered with status 400, when u1 or u2 has no stored
\* profile or an empty embedding; when both have one it succeeds with a
\* similarity and the four common lists.
CompareNeedsBothProfiles ==
    Compared =>
        IF HasEmbeddedProfile(call.user_id) /\ HasEmbeddedProfile(call.other_user_id)
        THEN /\ ret.success
             /\ "similarity" \in DOMAIN ret
             /\ DOMAIN ret.commonInterests = ListNames
             /\ compare_route(ret).status = 200
        ELSE /\ ret = [success |-> FALSE,
                       error   |-> "One or both users have no profile"]
             /\ compare_route(ret).status = 400

\* C15's case: the first user has a profile with an embedding, the second a
\* stored profile whose embedding is empty
CompareWithEmptyEmbedding ==
    /\ Compared
    /\ ~ret.success
    /\ HasEmbeddedProfile(call.user_id)
    /\ StoredProfile(call.other_user_id) # None

\* the values of one kind extracted from the stored profile text of a user
Extracted(user_id, kind) == _parse_profile_text(StoredProfile(user_id).text)[kind]

\* x is in the list
Listed(list, x) == \E i \in 1..Len(list) : list[i] = x

\* x equals, ignoring letter case, some value of the list
ListedIgnoringCase(list, x) == \E i \in 1..Len(list) : lower(list[i]) = lower(x)

\* C16: in a successful compare of u1 with u2, each common list holds exactly
\* the values extracted from u1's text that equal, ignoring letter case, some
\* value extracted from u2's text, each once, in the order of u1's list.
CommonListsAreFirstUsersMatches ==
    (Compared /\ ret.success) =>
        \A kind \in ListNames :
            LET common == ret.commonInterests[kind]
                mine   == Extracted(call.user_id, kind)
                theirs == Extracted(call.other_user_id, kind)
                At(x)  == CHOOSE i \in 1..Len(mine) : mine[i] = x
            IN  /\ \A i \in 1..Len(common) :
                      Listed(mine, common[i]) /\ ListedIgnoringCase(theirs, common[i])
                /\ \A i \in 1..Len(mine) :
                      ListedIgnoringCase(theirs, mine[i]) => Listed(common, mine[i])
                /\ \A i, j \in 1..Len(common) :
                      i < j => At(common[i]) < At(common[j])

\* C16's case: the first user's genres are Rock, Jazz, the second user's are
\* jazz, ROCK, Pop, and the common genres are Rock, Jazz
CommonGenresAcrossCase ==
    /\ Compared
    /\ ret.success
    /\ ret.user2Details.genres = <<<<"j", "a", "z", "z">>, <<"R", "O", "C", "K">>, <<"P", "o", "p">>>>
    /\ ret.commonInterests.genres = <<<<"R", "o", "c", "k">>, <<"J", "a", "z", "z">>>>
    /\ ret.commonInterests.songs = <<>>

\* C17, amended: the similarity score of a successful compare lies in
\* [-100, 100].
ScoreWithinPlusMinusHundred ==
    (Compared /\ ret.success) => ret.similarity.hundredths <= 10000

\* C17, as stated: the similarity score of a successful compare lies in
\* [0, 100].
ScoreWithinZeroAndHundred ==
    (Compared /\ ret.success) =>
        /\ ret.similarity.hundredths <= 10000
        /\ ret.similarity.neg => ret.similarity.hundredths = 0

\* C17's case: two users with embedded profiles whose score is "-100.00"
ScoreMinusHundred ==
    /\ Compared
    /\ ret.success
    /\ HasEmbeddedProfile(call.user_id) /\ HasEmbeddedProfile(call.other_user_id)
    /\ ret.similarity = [neg |-> TRUE, hundredths |-> 10000]

(***************************************************************************)
(* _parse_profile_text on its own (SpecParse): the text is drawn from the  *)
(* strings of at most MaxPieces of TextPieces.                             *)
(***************************************************************************)
TextPieces ==
    {<<"G", "e", "n", "r", "e", ":">>,
     <<"G", "e", "n", "r", "e", ":", " ", "C", "d", " ", ".">>,
     <<"S", "o", "n", "g", ":", "C", "d", ",">>,
     <<"a", "r", "t", "i", "s", "t", ":", " ">>,
     <<"A", "l", "b", "u", "m", ":">>,
     <<" ", "A", "b">>,
     <<"A", "b", " ">>,
     <<"C", "d", ".">>,
     <<",">>,
     <<".">>}

MaxPieces == 3

\* a longer text, with every keyword: "Genre: Cd .Genre:Cd.Song:Cd,artist: Ab ,Album: Ab,"
SampleTexts ==
    {<<"G", "e", "n", "r", "e", ":", " ", "C", "d", " ", ".", "G",
     "e", "n", "r", "e", ":", "C", "d", ".", "S", "o", "n", "g", ":",
     "C", "d", ",", "a", "r", "t", "i", "s", "t", ":", " ", "A", "b",
     " ", ",", "A", "l", "b", "u", "m", ":", " ", "A", "b", ",">>}

RECURSIVE TextsOf(_)
TextsOf(n) ==
    IF n = 0 THEN {<<>>}
    ELSE TextsOf(n - 1) \cup {t \o piece : t \in TextsOf(n - 1), piece \in TextPieces}

InitParse ==
    /\ db = [c \in {} |-> EmptyCollection]
    /\ collections = {}
    /\ clock = 0
    /\ call \in {[op |-> "_parse_profile_text", profile_text |-> t] :
                    t \in TextsOf(MaxPieces) \cup SampleTexts}
    /\ ret = None
    /\ tasks = [t \in Tasks |-> IdleTask]
    /\ landed = [u \in {} |-> None]
    /\ keyst = [pc |-> "input"]

\* _parse_profile_text(profile_text)
Parse ==
    /\ keyst.pc = "input"
    /\ ret' = _parse_profile_text(call.profile_text)
    /\ keyst' = [pc |-> "parsed"]
    /\ UNCHANGED <<db, collections, clock, call, tasks, landed>>

NextParse == Parse

SpecParse == InitParse /\ [][NextParse]_vars

\* what the expression of a kind captures in the text, match by match, each
\* without the whitespace around it
Captured(text, kind) ==
    LET matches == CASE kind = "genres"  -> FindAllFrom(text, KeyGenre, ".", 1)
                     [] kind = "artists" -> FindAllFrom(text, KeyArtist, ",", 1)
                     [] kind = "songs"   -> FindAllFrom(text, KeySong, ",", 1)
                     [] kind = "albums"  -> FindAllFrom(text, KeyAlbum, ",", 1)
    IN  [i \in 1..Len(matches) |-> strip(matches[i])]

\* C18: _parse_profile_text returns four lists; each has no repeated value,
\* holds exactly the captured values that are not empty, each without
\* whitespace at its ends, in the order of their first capture; for the empty
\* text the four lists are empty.
ParsedListsAreDistinctTrimmedInOrder ==
    keyst.pc = "parsed" =>
        /\ DOMAIN ret = ListNames
        /\ call.profile_text = <<>> => ret = NoDetails
        /\ \A kind \in ListNames :
             LET list     == ret[kind]
                 captured == Captured(call.profile_text, kind)
                 First(x) == Least({i \in 1..Len(captured) : captured[i] = x})
             IN  /\ \A i, j \in 1..Len(list) : i # j => list[i] # list[j]
                 /\ \A i \in 1..Len(list) :
                       /\ list[i] # <<>>
                       /\ list[i][1] \notin Whitespace
                       /\ list[i][Len(list[i])] \notin Whitespace
                       /\ Listed(captured, list[i])
                 /\ \A i \in 1..Len(captured) :
                       captured[i] # <<>> => Listed(list, captured[i])
                 /\ \A i, j \in 1..Len(list) :
                       i < j => First(list[i]) < First(list[j])

\* C18's case: a genre captured twice, once with whitespace around it, and
\* listed once; a song captured as well
ParsedRepeatedGenre ==
    /\ keyst.pc = "parsed"
    /\ LET matches  == FindAllFrom(call.profile_text, KeyGenre, ".", 1)
           captured == Captured(call.profile_text, "genres")
       IN  /\ Len(captured) = 2
           /\ captured[1] = captured[2]
           /\ matches[1] # captured[1]
    /\ Len(ret.genres) = 1
    /\ ret.songs # <<>>


(***************************************************************************)
(* SyncController._generate_profile_text as a function of the catalog      *)
(* records                                                                 *)
(***************************************************************************)
PopTrack ==
    [id |-> "5", attributes |-> [name |-> "Song5", artistName |-> "Artist5",
                                  genreNames |-> <<"Pop">>]]
FolkTrack ==
    [id |-> "6", attributes |-> [name |-> "Song6", artistName |-> "Artist6",
                                  genreNames |-> <<"Folk", "Music">>]]
\* a record whose first genre is the very word the code uses as placeholder
UnknownTrack ==
    [id |-> "7", attributes |-> [name |-> "Song7", artistName |-> "Artist7",
                                  genreNames |-> <<"Unknown", "Rock">>]]
\* a record whose first genre is the empty string
EmptyGenreTrack ==
    [id |-> "8", attributes |-> [name |-> "Song8", artistName |-> "Artist8",
                                  genreNames |-> <<"", "Jazz">>]]

BuildTracks == {RockTrack, JazzTrack, PopTrack, FolkTrack, BareTrack,
                UnknownTrack, EmptyGenreTrack, NullTrack}

\* the longest catalog list
MaxTracks == 5

\* the catalog list of the documented example
SixTracks == <<RockTrack, RockTrack, JazzTrack, PopTrack, PopTrack, PopTrack>>

TrackLists(n) == UNION {[1..k -> BuildTracks] : k \in 0..n}

InitBuild ==
    /\ db = [c \in {} |-> EmptyCollection]
    /\ collections = {}
    /\ clock = 0
    /\ call \in {[op |-> "_generate_profile_text", catalog_data |-> c] :
                    c \in TrackLists(MaxTracks) \cup {SixTracks}}
    /\ ret = None
    /\ tasks = [t \in Tasks |-> IdleTask]
    /\ landed = [u \in {} |-> None]
    /\ keyst = [pc |-> "input"]

\* _generate_profile_text(catalog_data)
Build ==
    /\ keyst.pc = "input"
    /\ ret' = IF ProfileTextRaises(call.catalog_data)
              THEN [raised |-> ErrNoneType]
              ELSE _generate_profile_text(call.catalog_data)
    /\ keyst' = [pc |-> "built"]
    /\ UNCHANGED <<db, collections, clock, call, tasks, landed>>

NextBuild == Build

SpecBuild == InitBuild /\ [][NextBuild]_vars

\* the call has returned a text and its top genres
Built == keyst.pc = "built" /\ "top_genres" \in DOMAIN ret

\* the first genre of the i-th record, "Unknown" for a record that names none
FirstGenre(catalog_data, i) == GenreOf(AttrsOf(catalog_data[i]))

\* the records whose first genre is g
TracksOf(catalog_data, g) ==
    {i \in 1..Len(catalog_data) : FirstGenre(catalog_data, i) = g}

\* the distinct first genres of the records, but for the excluded ones
NamedGenres(catalog_data, excluded) ==
    {FirstGenre(catalog_data, i) : i \in 1..Len(catalog_data)} \ excluded

\* g comes before h: more records, or as many and an earlier first record
RanksBefore(catalog_data, g, h) ==
    LET n_g == Cardinality(TracksOf(catalog_data, g))
        n_h == Cardinality(TracksOf(catalog_data, h))
    IN  \/ n_g > n_h
        \/ /\ n_g = n_h
           /\ Least(TracksOf(catalog_data, g)) < Least(TracksOf(catalog_data, h))

\* top is the first min(3, number of named genres) of the named genres in
\* the order RanksBefore
TopOfNamed(catalog_data, top, excluded) ==
    LET named == NamedGenres(catalog_data, excluded)
    IN  /\ Len(top) = (IF Cardinality(named) < 3 THEN Cardinality(named) ELSE 3)
        /\ \A i \in 1..Len(top) : top[i] \in named
        /\ \A i, j \in 1..Len(top) :
              i < j => RanksBefore(catalog_data, top[i], top[j])
        /\ \A g \in named :
              Listed(top, g) \/ \A i \in 1..Len(top) :
                                    RanksBefore(catalog_data, top[i], g)

\* C19, amended: top_genres holds min(3, n) genres, n the number of distinct
\* first genres that are neither the empty string nor "Unknown"; these are
\* the ones with most records, by descending count of records, genres with
\* equal counts in the order of their first record.
TopGenresRankNonEmptyGenres ==
    Built => TopOfNamed(call.catalog_data, ret.top_genres, {"", "Unknown"})

\* C19, as stated: top_genres holds min(3, n) genres, n the number of
\* distinct first genres other than "Unknown", by descending count of
\* records, genres with equal counts in the order of their first record.
TopGenresRankAllButUnknown ==
    Built => TopOfNamed(call.catalog_data, ret.top_genres, {"Unknown"})

\* C19's case: first genres Rock, Rock, Jazz, Pop, Pop, Pop give Pop, Rock,
\* Jazz
TopGenresOfSixTracks ==
    /\ Built
    /\ call.catalog_data = SixTracks
    /\ ret.top_genres = <<"Pop", "Rock", "Jazz">>

\* the pieces of one song segment
SegmentPieces == 7

\* the text from its k-th piece on holds the segment of the record
SegmentAt(text, k, item) ==
    LET has(key) == /\ "attributes" \in DOMAIN item
                    /\ key \in DOMAIN item.attributes
    IN  /\ text[k] = "Song: "
        /\ text[k + 1] = (IF has("name") THEN item.attributes.name ELSE "Unknown")
        /\ text[k + 2] = ", Artist: "
        /\ text[k + 3] = (IF has("artistName") THEN item.attributes.artistName
                          ELSE "Unknown")
        /\ text[k + 4] = ", Genre: "
        /\ text[k + 5] = (IF has("genreNames") /\ item.attributes.genreNames # <<>>
                          THEN item.attributes.genreNames[1] ELSE "Unknown")
        /\ text[k + 6] = ". "

\* the genres a "Top Genres: g1, g2, g3." clause lists, the clause being the
\* text from its k-th piece on; <<"?">> if the pieces are no such clause
ClauseGenres(text, k) ==
    LET body == SubSeq(text, k + 1, Len(text) - 1)
    IN  IF /\ k < Len(text)
           /\ text[k] = "Top Genres: "
           /\ text[Len(text)] = "."
           /\ body = <<>> \/ Len(body) % 2 = 1
           /\ \A i \in 1..Len(body) : (i % 2 = 0) <=> (body[i] = ", ")
        THEN [i \in 1..((Len(body) + 1) \div 2) |-> body[2 * i - 1]]
        ELSE <<"?">>

\* C20: for a list of one record or more the text starts with "User
\* Listening Profile: ", goes on with one "Song: ..., Artist: ..., Genre:
\* .... " segment for each record, in the order of the records, and ends with
\* a "Top Genres: ...." clause; each genre the clause lists is the first
\* entry of genreNames of some record and is not "Unknown".
ProfileTextIsPreambleSegmentsClause ==
    (Built /\ call.catalog_data # <<>>) =>
        LET text         == ret.profile_text
            catalog_data == call.catalog_data
            n            == Len(catalog_data)
            listed       == ClauseGenres(text, 2 + SegmentPieces * n)
        IN  /\ Len(text) >= 3 + SegmentPieces * n
            /\ text[1] = "User Listening Profile: "
            /\ \A i \in 1..n :
                  SegmentAt(text, 2 + SegmentPieces * (i - 1), catalog_data[i])
            /\ \A j \in 1..Len(listed) :
                  /\ listed[j] # "Unknown"
                  /\ \E i \in 1..n :
                        LET item == catalog_data[i]
                        IN  /\ "attributes" \in DOMAIN item
                            /\ "genreNames" \in DOMAIN item.attributes
                            /\ item.attributes.genreNames # <<>>
                            /\ item.attributes.genreNames[1] = listed[j]

\* C20's case: three records or more, one that names no genre and one whose
\* first genre is the word "Unknown", and a clause that lists two genres
ProfileTextWithPlaceholders ==
    /\ Built
    /\ Len(call.catalog_data) >= 3
    /\ \E i, j \in 1..Len(call.catalog_data) :
          /\ call.catalog_data[i] = BareTrack
          /\ call.catalog_data[j] = UnknownTrack
    /\ Len(ClauseGenres(ret.profile_text,
                        2 + SegmentPieces * Len(call.catalog_data))) = 2


(***************************************************************************)
(* SyncController._generate_profile_embedding, the embedder written out in *)
(* the controller.  Its text is a sequence of one-character strings, its   *)
(* numbers are binary64 floats.                                            *)
(***************************************************************************)

\* the characters with the codes 32 to 126, in the order of their codes
\* ("grave" stands for the grave accent, code 96)
Printable ==
    <<" ", "!", "\"", "#", "$", "%", "&", "'", "(", ")", "*",
      "+", ",", "-", ".", "/", "0", "1", "2", "3", "4", "5",
      "6", "7", "8", "9", ":", ";", "<", "=", ">", "?", "@",
      "A", "B", "C", "D", "E", "F", "G", "H", "I", "J", "K",
      "L", "M", "N", "O", "P", "Q", "R", "S", "T", "U", "V",
      "W", "X", "Y", "Z", "[", "\\", "]", "^", "_", "grave", "a",
      "b", "c", "d", "e", "f", "g", "h", "i", "j", "k", "l",
      "m", "n", "o", "p", "q", "r", "s", "t", "u", "v", "w",
      "x", "y", "z", "{", "|", "}", "~">>

\* ord(c)
ord(c) ==
    CASE c = "\t" -> 9
      [] c = "\n" -> 10
      [] OTHER    -> 31 + (CHOOSE k \in 1..Len(Printable) : Printable[k] = c)

\* the literal 0.1
FloatTenth == FloatDiv(FloatOf(1), FloatOf(10))

\* the number of components
EmbeddingSize == 128

\* the number of words that give a feature
TopWordCount == 10

\* len(re.findall(r'Genre: ([^.]+)', text)), the text read from position p on:
\* a match runs up to the next period, and the search goes on from there
GenreMention == <<"G", "e", "n", "r", "e", ":", " ">>
RECURSIVE GenreMentionsFrom(_, _)
GenreMentionsFrom(text, p) ==
    LET starts == {i \in p..(Len(text) - Len(GenreMention)) :
                      /\ SubSeq(text, i, i + Len(GenreMention) - 1) = GenreMention
                      /\ text[i + Len(GenreMention)] # "."}
    IN  IF starts = {} THEN 0
        ELSE 1 + GenreMentionsFrom(text,
                    FirstIn(text, Least(starts) + Len(GenreMention), {"."}))

\* len(re.findall(r'Song:', text))
SongMentions(text) == Cardinality(Occurrences(text, KeySong))

\* re.search(r'Top Genres: (.+)', text): the literal and one more character
\* that is not a line break
TopGenresLiteral == <<"T", "o", "p", " ", "G", "e", "n", "r", "e", "s", ":", " ">>
TopGenresSection(text) ==
    \E i \in Occurrences(text, TopGenresLiteral) :
        /\ i + Len(TopGenresLiteral) <= Len(text)
        /\ text[i + Len(TopGenresLiteral)] # "\n"

\* the characters \w matches
WordChars == Alnum \cup {"_"}

\* re.findall(r'\b\w+\b', text): the longest runs of word characters
WordsOf(text) ==
    LET starts == {i \in 1..Len(text) :
                      /\ text[i] \in WordChars
                      /\ i = 1 \/ text[i - 1] \notin WordChars}
        nth(k) == CHOOSE i \in starts : Cardinality({j \in starts : j <= i}) = k
    IN  [k \in 1..Cardinality(starts) |->
            SubSeq(text, nth(k), FirstNotIn(text, nth(k), WordChars) - 1)]

\* (freq / len(words)) * 10 for the top_words, in their order
WordFeatures(words) ==
    LET long == SelectSeq(words, LAMBDA w : Len(w) > 3)
        keys == SortByCount(FirstSeen(long), long)
        top  == SubSeq(keys, 1, IF Len(keys) < TopWordCount THEN Len(keys)
                                ELSE TopWordCount)
    IN  [k \in 1..Len(top) |->
            FloatMul(FloatDiv(FloatOf(GenreCount(long, top[k])), FloatOf(Len(words))),
                     FloatOf(10))]

\* the value taken at the index len itself
PadValueAtOwnIndex(text, len) ==
    IF text = <<>> THEN FloatTenth
    ELSE FloatMul(FloatDiv(FloatOf(ord(text[(len % Len(text)) + 1])),
                           FloatOf(256)),
                  FloatTenth)
\* the value appended when features holds len values already
PadValue(text, len) ==
    IF text = <<>> THEN FloatTenth
    ELSE FloatMul(FloatDiv(FloatOf(ord(text[((len - 1) % Len(text)) + 1])),
                           FloatOf(256)),
                  FloatTenth)

\* features, when the while loop has ended
FeaturesOf(profile_text) ==
    TheOne({[k \in 1..EmbeddingSize |->
                IF k <= Len(head) THEN head[k] ELSE PadValue(profile_text, k - 1)] :
        head \in {<<IF Len(profile_text) < 1000
                    THEN FloatDiv(FloatOf(Len(profile_text)), FloatOf(1000))
                    ELSE FloatOne,
                    FloatDiv(FloatOf(GenreMentionsFrom(profile_text, 1)), FloatOf(50)),
                    FloatDiv(FloatOf(SongMentions(profile_text)), FloatOf(50)),
                    IF TopGenresSection(profile_text) THEN FloatOne ELSE FloatZero>>
                  \o WordFeatures(WordsOf(lower(profile_text)))}})

\* sum(val * val for val in embedding[lo..hi]) added to acc, from the left
RECURSIVE SumSquares(_, _, _, _)
SumSquares(embedding, acc, lo, hi) ==
    IF lo = hi THEN FloatAdd(acc, FloatMul(embedding[lo], embedding[lo]))
    ELSE TheOne({SumSquares(embedding, left, (lo + hi) \div 2 + 1, hi) :
                   left \in {SumSquares(embedding, acc, lo, (lo + hi) \div 2)}})

\* the division by the sum of squares instead of its root
NormalizedBySquares(embedding) ==
    TheOne({IF magnitude = FloatZero THEN embedding
            ELSE [k \in 1..Len(embedding) |-> FloatDiv(embedding[k], magnitude)] :
        magnitude \in {SumSquares(embedding, FloatZero, 1, Len(embedding))}})
\* the unit normalization
Normalized(embedding) ==
    TheOne({IF magnitude = FloatZero THEN embedding
            ELSE [k \in 1..Len(embedding) |-> FloatDiv(embedding[k], magnitude)] :
        magnitude \in {FloatSqrt(SumSquares(embedding, FloatZero, 1, Len(embedding)))}})

\* SyncController._generate_profile_embedding when no step raises
_generate_profile_embedding(profile_text) ==
    TheOne({[features |-> features, embedding |-> Normalized(features)] :
        features \in {FeaturesOf(profile_text)}})

\* ---------------------------------------------------------------------------
\* Calls of SyncController._generate_profile_embedding
\* ---------------------------------------------------------------------------

PieceSong ==
    <<"S", "o", "n", "g", ":", " ", "A", "b", "c", "d", "e", ",", " ">>

PieceGenre ==
    <<"G", "e", "n", "r", "e", ":", " ", "R", "o", "c", "k", ".", " ">>

PieceTop ==
    <<"T", "o", "p", " ", "G", "e", "n", "r", "e", "s", ":", " ", "R", "o",
      "c", "k">>

PieceWords ==
    <<"r", "o", "c", "k", " ", "R", "o", "c", "k", " ", "a", "_", "b", "1",
      " ">>

TextOfTwoTracks ==
    <<"U", "s", "e", "r", " ", "L", "i", "s", "t", "e", "n", "i", "n", "g",
      " ", "P", "r", "o", "f", "i", "l", "e", ":", " ", "S", "o", "n", "g",
      ":", " ", "H", "e", "l", "l", "o", ",", " ", "A", "r", "t", "i", "s",
      "t", ":", " ", "A", "d", "e", "l", "e", ",", " ", "G", "e", "n", "r",
      "e", ":", " ", "P", "o", "p", ",", " ", "S", "o", "u", "l", ".", " ",
      "S", "o", "n", "g", ":", " ", "Y", "e", "l", "l", "o", "w", ",", " ",
      "A", "r", "t", "i", "s", "t", ":", " ", "C", "o", "l", "d", "p", "l",
      "a", "y", ",", " ", "G", "e", "n", "r", "e", ":", " ", "R", "o", "c",
      "k", ".", " ", "T", "o", "p", " ", "G", "e", "n", "r", "e", "s", ":",
      " ", "P", "o", "p", ",", " ", "S", "o", "u", "l", ",", " ", "R", "o",
      "c", "k", ".">>

TextOfManyWords ==
    <<"a", "l", "p", "h", "a", " ", "b", "e", "t", "a", "1", " ", "g", "a",
      "m", "m", "a", " ", "d", "e", "l", "t", "a", " ", "e", "p", "s", "i",
      "l", "o", "n", " ", "z", "e", "t", "a", "_", " ", "t", "h", "e", "t",
      "a", " ", "i", "o", "t", "a", " ", "k", "a", "p", "p", "a", " ", "l",
      "a", "m", "b", "d", "a", " ", "m", "u", "s", "i", "c", "s", " ", "m",
      "u", "s", "i", "c", " ", "m", "u", "s", "i", "c", "\t", "T", "o",
      "p", " ", "G", "e", "n", "r", "e", "s", ":", " ", "\n", "~">>


EmbedPieces == {PieceSong, PieceGenre, PieceTop, PieceWords}

\* the longest concatenation of pieces given as profile_text
MaxEmbedPieces == 2

RECURSIVE EmbedTexts(_)
EmbedTexts(n) ==
    IF n = 0 THEN {<<>>}
    ELSE EmbedTexts(n - 1)
         \cup {t \o p : t \in EmbedTexts(n - 1), p \in EmbedPieces}

\* the arguments of a call: a str with its characters, or an object of
\* another type
EmbedInputs ==
    {[type |-> "str", text |-> t] :
        t \in EmbedTexts(MaxEmbedPieces) \cup {TextOfTwoTracks, TextOfManyWords}}
    \cup {[type |-> "NoneType", text |-> <<>>], [type |-> "int", text |-> <<>>]}

\* the calls made on one argument
MaxEmbedCalls == 2

\* random.random(): a multiple of 2^-53 in [0, 1); the least, the middle and
\* the greatest
RandomDraws ==
    {FloatZero,
     FloatDiv(FloatOf(1), FloatOf(2)),
     [neg |-> FALSE, m |-> BigSub(Pow2(MantissaBits), BigOf(1)), e |-> -MantissaBits]}

\* the draws of one comprehension repeat with this period
RandomPeriod == 2

\* [random.random() * 0.1 for _ in range(128)]
RandomVector(draws) ==
    [k \in 1..EmbeddingSize |->
        FloatMul(draws[((k - 1) % Len(draws)) + 1], FloatTenth)]

\* the exception the try block raises on the argument, "" when it ends:
\* len() or re.findall() of an object that is not a str
TryRaises(input) == IF input.type = "str" THEN "" ELSE "TypeError"

\* the classes under Exception
ExceptionClasses == {"TypeError", "ValueError", "ZeroDivisionError", "KeyError"}

\* except ValueError
CaughtValueErrorOnly(class) == class = "ValueError"
\* except Exception
Caught(class) == class \in ExceptionClasses

InitEmbed ==
    /\ db = [c \in {} |-> EmptyCollection]
    /\ collections = {}
    /\ clock = 0
    /\ call \in {[op |-> "_generate_profile_embedding", profile_text |-> i] :
                    i \in EmbedInputs}
    /\ ret = <<>>
    /\ tasks = [t \in Tasks |-> IdleTask]
    /\ landed = [u \in {} |-> None]
    /\ keyst = [pc |-> "input"]

\* a call whose try block ends with the return
EmbedReturns ==
    /\ call.op = "_generate_profile_embedding"
    /\ Len(ret) < MaxEmbedCalls
    /\ TryRaises(call.profile_text) = ""
    /\ ret' = Append(ret, TheOne({[fell_back |-> FALSE, features |-> made.features,
                                    embedding |-> made.embedding] :
                made \in {_generate_profile_embedding(call.profile_text.text)}}))
    /\ keyst' = [pc |-> "called"]
    /\ UNCHANGED <<db, collections, clock, call, tasks, landed>>

\* a call whose try block raises: the handler's list when the except clause
\* takes the exception, the exception itself when it does not
EmbedFallsBack ==
    /\ call.op = "_generate_profile_embedding"
    /\ Len(ret) < MaxEmbedCalls
    /\ TryRaises(call.profile_text) # ""
    /\ \E draws \in [1..RandomPeriod -> RandomDraws] :
          ret' = Append(ret,
                    IF Caught(TryRaises(call.profile_text))
                    THEN [fell_back |-> TRUE, features |-> <<>>,
                          embedding |-> RandomVector(draws)]
                    ELSE [raised |-> TryRaises(call.profile_text)])
    /\ keyst' = [pc |-> "called"]
    /\ UNCHANGED <<db, collections, clock, call, tasks, landed>>

NextEmbed == EmbedReturns \/ EmbedFallsBack

SpecEmbed == InitEmbed /\ [][NextEmbed]_vars

\* a call that ended in the try block
Returned(r) == "raised" \notin DOMAIN r /\ ~r.fell_back

\* the least exponent of the components that are not zero, 0 when all are
LeastExponent(embedding) ==
    LET es == {embedding[k].e : k \in {j \in 1..Len(embedding) : embedding[j].m # <<>>}}
    IN  IF es = {} THEN 0 ELSE Least(es)

\* the exact sum of the squares of embedding[lo..hi], in units of 4^low
RECURSIVE ExactSquares(_, _, _, _)
ExactSquares(embedding, low, lo, hi) ==
    IF lo = hi
    THEN TheOne({BigMul(scaled, scaled) :
            scaled \in {ShiftLeft(embedding[lo].m, embedding[lo].e - low)}})
    ELSE BigAdd(ExactSquares(embedding, low, lo, (lo + hi) \div 2),
                ExactSquares(embedding, low, (lo + hi) \div 2 + 1, hi))

\* the Euclidean norm lies within 1e-9 of 1: its square lies between the
\* squares of 1 - 1e-9 and 1 + 1e-9
UnitNorm(embedding) ==
    LET low   == LeastExponent(embedding)
        unit  == Pow2(-2 * low)
        tol   == BigOf(10 ^ 9)
        sum   == BigMul(ExactSquares(embedding, low, 1, Len(embedding)), BigMul(tol, tol))
        under == BigSub(tol, BigOf(1))
        over  == BigAdd(tol, BigOf(1))
    IN  /\ low < 0
        /\ ~BigLess(sum, BigMul(unit, BigMul(under, under)))
        /\ ~BigLess(BigMul(unit, BigMul(over, over)), sum)

InTenth(x) ==
    /\ ~x.neg
    /\ x.m = <<>> \/ (x.e < 0 /\ BigLess(BigMul(BigOf(10), x.m), Pow2(-x.e)))

\* C22: no call of the fallback embedder ends with an exception, and a call
\* whose try block raised returns exactly 128 values, each at least 0 and
\* less than 0.1
EmbedderSwallowsEveryException ==
    \A i \in 1..Len(ret) :
        /\ "raised" \notin DOMAIN ret[i]
        /\ ret[i].fell_back =>
              /\ Len(ret[i].embedding) = EmbeddingSize
              /\ \A k \in 1..EmbeddingSize : InTenth(ret[i].embedding[k])

FallbackVectorForNone ==
    /\ call.profile_text.type = "NoneType"
    /\ Len(ret) = MaxEmbedCalls
    /\ \A i \in 1..Len(ret) :
          /\ "raised" \notin DOMAIN ret[i]
          /\ ret[i].fell_back
    /\ ret[1].embedding # ret[2].embedding
    /\ \E k \in 1..EmbeddingSize : ret[1].embedding[k].m # <<>>

\* the 0-based index of the first padding slot: 4 + min(10, distinct long words)
PadStart(text) ==
    LET words == WordsOf(lower(text))
        long  == {words[k] : k \in {j \in 1..Len(words) : Len(words[j]) > 3}}
    IN  4 + (IF Cardinality(long) < TopWordCount THEN Cardinality(long)
             ELSE TopWordCount)

\* charCodes[j] / 256 * 0.1, j counted from 0
CodeValue(text, j) ==
    FloatMul(FloatDiv(FloatOf(ord(text[j + 1])), FloatOf(256)), FloatTenth)

\* every padding slot i of features holds the value of charCodes[(i - back)
\* mod len(charCodes)], and 0.1 when the text is empty
PaddedFrom(text, features, back) ==
    \A i \in PadStart(text)..(EmbeddingSize - 1) :
        features[i + 1] = IF text = <<>> THEN FloatTenth
                          ELSE CodeValue(text, (i - back) % Len(text))

\* C23, amended: before normalization every padding slot with 0-based index i
\* (from slot 4 + min(10, number of distinct long words) up to 127) holds
\* charCodes[(i - 1) mod len(charCodes)] / 256 * 0.1, and 0.1 when the text
\* is empty
PaddingCyclesFromPreviousIndex ==
    \A n \in 1..Len(ret) :
        Returned(ret[n]) => PaddedFrom(call.profile_text.text, ret[n].features, 1)

\* C23, as stated: before normalization every padding slot with 0-based index
\* i holds charCodes[i mod len(charCodes)] / 256 * 0.1, and 0.1 when the text
\* is empty
PaddingCyclesFromOwnIndex ==
    \A n \in 1..Len(ret) :
        Returned(ret[n]) => PaddedFrom(call.profile_text.text, ret[n].features, 0)

PaddingAfterTenWords ==
    /\ call.profile_text = [type |-> "str", text |-> TextOfManyWords]
    /\ ret # <<>>
    /\ Returned(ret[1])
    /\ PadStart(TextOfManyWords) = 4 + TopWordCount
    /\ ret[1].features[PadStart(TextOfManyWords) + 1]
          = CodeValue(TextOfManyWords, PadStart(TextOfManyWords) - 1)

\* ---------------------------------------------------------------------------
\* The embedding provider of SyncController
\* ---------------------------------------------------------------------------

\* the characters of a str the profile text is made of
Chars(s) ==
    CASE s = "User Listening Profile: " ->
                <<"U", "s", "e", "r", " ", "L", "i", "s", "t", "e", "n",
                  "i", "n", "g", " ", "P", "r", "o", "f", "i", "l", "e",
                  ":", " ">>
      [] s = "Song: " ->
                <<"S", "o", "n", "g", ":", " ">>
      [] s = ", Artist: " ->
                <<",", " ", "A", "r", "t", "i", "s", "t", ":", " ">>
      [] s = ", Genre: " ->
                <<",", " ", "G", "e", "n", "r", "e", ":", " ">>
      [] s = ". " ->
                <<".", " ">>
      [] s = "Top Genres: " ->
                <<"T", "o", "p", " ", "G", "e", "n", "r", "e", "s", ":", " ">>
      [] s = ", " ->
                <<",", " ">>
      [] s = "." ->
                <<".">>
      [] s = "Unknown" ->
                <<"U", "n", "k", "n", "o", "w", "n">>
      [] s = "" ->
                <<>>
      [] s = "Song1" ->
                <<"S", "o", "n", "g", "1">>
      [] s = "Artist1" ->
                <<"A", "r", "t", "i", "s", "t", "1">>
      [] s = "Rock" ->
                <<"R", "o", "c", "k">>
      [] s = "Song2" ->
                <<"S", "o", "n", "g", "2">>
      [] s = "Artist2" ->
                <<"A", "r", "t", "i", "s", "t", "2">>
      [] s = "Jazz" ->
                <<"J", "a", "z", "z">>
      [] s = "Song3" ->
                <<"S", "o", "n", "g", "3">>
      [] s = "Song5" ->
                <<"S", "o", "n", "g", "5">>
      [] s = "Artist5" ->
                <<"A", "r", "t", "i", "s", "t", "5">>
      [] s = "Pop" ->
                <<"P", "o", "p">>
      [] s = "Song6" ->
                <<"S", "o", "n", "g", "6">>
      [] s = "Artist6" ->
                <<"A", "r", "t", "i", "s", "t", "6">>
      [] s = "Folk" ->
                <<"F", "o", "l", "k">>
      [] s = "Song7" ->
                <<"S", "o", "n", "g", "7">>
      [] s = "Artist7" ->
                <<"A", "r", "t", "i", "s", "t", "7">>
      [] s = "Song8" ->
                <<"S", "o", "n", "g", "8">>
      [] s = "Artist8" ->
                <<"A", "r", "t", "i", "s", "t", "8">>
      [] s = "Hello, World" ->
                <<"H", "e", "l", "l", "o", ",", " ", "W", "o", "r", "l", "d">>
      [] s = "Mr. Big" ->
                <<"M", "r", ".", " ", "B", "i", "g">>
      [] s = "Dr. Dre" ->
                <<"D", "r", ".", " ", "D", "r", "e">>
      [] s = "Song: Two" ->
                <<"S", "o", "n", "g", ":", " ", "T", "w", "o">>
      [] s = "R&B, Soul" ->
                <<"R", "&", "B", ",", " ", "S", "o", "u", "l">>
      [] s = "Hip-Hop" ->
                <<"H", "i", "p", "-", "H", "o", "p">>
      [] s = "rock" ->
                <<"r", "o", "c", "k">>
      [] s = "Genre: Pop" ->
                <<"G", "e", "n", "r", "e", ":", " ", "P", "o", "p">>
      [] s = "Lo.Fi" ->
                <<"L", "o", ".", "F", "i">>
      [] s = " Intro" ->
                <<" ", "I", "n", "t", "r", "o">>
      [] s = "; Artist: " ->
                <<";", " ", "A", "r", "t", "i", "s", "t", ":", " ">>
      [] s = "; Genre: " ->
                <<";", " ", "G", "e", "n", "r", "e", ":", " ">>

\* the text as one str: the pieces[lo..hi] joined
RECURSIVE Spelled(_, _, _)
Spelled(pieces, lo, hi) ==
    IF lo > hi THEN <<>>
    ELSE IF lo = hi THEN Chars(pieces[lo])
    ELSE Spelled(pieces, lo, (lo + hi) \div 2)
            \o Spelled(pieces, (lo + hi) \div 2 + 1, hi)

ErrEncode == <<"encode", "failed">>
ErrNoEncode == <<"'NoneType'", "object", "has", "no", "attribute", "'encode'">>

\* EmbeddingService() of a deployment: sentence_transformers and the model
\* files are there (installed) or not
NewEmbeddingService(installed) ==
    [pc |-> "deployed", installed |-> installed, model |-> "", is_loading |-> FALSE]

\* EmbeddingService.load_model: the service after the call, and the model it
\* returns ("" for None) or the exception it raises
load_model(service) ==
    IF service.model # "" THEN [service |-> service, model |-> service.model]
    ELSE IF service.is_loading THEN [service |-> service, model |-> ""]
    ELSE IF service.installed
    THEN [service |-> [service EXCEPT !.is_loading = TRUE,
                                      !.model = "all-MiniLM-L6-v2"],
          model   |-> "all-MiniLM-L6-v2"]
    ELSE [service |-> [service EXCEPT !.is_loading = FALSE], raised |-> ErrModel]

\* EmbeddingService.generate_embedding: encoded is what model.encode does
generate_embedding(service, encoded) ==
    TheOne({IF "raised" \in DOMAIN loaded
            THEN [service |-> loaded.service, result |-> [raised |-> Reraised(loaded.raised)]]
            ELSE IF loaded.model = ""
            THEN [service |-> loaded.service, result |-> [raised |-> Reraised(ErrNoEncode)]]
            ELSE IF "raised" \in DOMAIN encoded
            THEN [service |-> loaded.service, result |-> [raised |-> Reraised(encoded.raised)]]
            ELSE [service |-> loaded.service, result |-> encoded] :
        loaded \in {load_model(service)}})

\* what model.encode may do
EncodeOutcomes == {[value |-> v] : v \in SampleEmbeddings} \cup {[raised |-> ErrEncode]}

InitProvider ==
    /\ db = [c \in {} |-> EmptyCollection]
    /\ collections = {}
    /\ clock = 0
    /\ call = [op |-> "none"]
    /\ ret = None
    /\ tasks = [t \in Tasks |-> IdleTask]
    /\ landed = [u \in {} |-> None]
    /\ keyst \in {NewEmbeddingService(installed) : installed \in BOOLEAN}

\* get_catalog_songs returns and self.embedding_service.generate_embedding
\* gives the embedding or raises
CatalogReturnsAndEmbeds(t, catalog_data, encoded) ==
    /\ CatalogReturnsWith(t, catalog_data,
            IF ProfileTextRaises(catalog_data) THEN encoded
            ELSE generate_embedding(keyst, encoded).result)
    /\ keyst' = IF ProfileTextRaises(catalog_data) THEN keyst
                ELSE generate_embedding(keyst, encoded).service

NextProvider ==
    \/ \E u \in SyncUsers : SyncStart("t1", u)
    \/ \E recent_tracks \in RecentAnswers : RecentReturns("t1", recent_tracks)
    \/ \E e \in UpstreamErrors : RecentRaises("t1", e)
    \/ \E e \in UpstreamErrors : CatalogRaises("t1", e)
    \/ \E c \in CatalogAnswers, encoded \in EncodeOutcomes :
          CatalogReturnsAndEmbeds("t1", c, encoded)
    \/ \E created \in BOOLEAN : IndexesEnsured("t1", created)
    \/ UpdateLands("t1")
    \/ UpdateRaises("t1", ErrStorage)

SpecProvider == InitProvider /\ [][NextProvider]_vars

\* the embedding the FallbackEmbedder gives for a stored text
FallbackEmbedding(text) ==
    _generate_profile_embedding(Spelled(text, 1, Len(text))).embedding

\* C24: the embedding a sync stores comes from the learned provider where one
\* is deployed and from the FallbackEmbedder where none is; in a deployment
\* without a learned provider the embedding step does not fail for the lack
\* of it, and in one with a learned provider a failure of the provider never
\* stores a fallback embedding
ProviderIsChosenPerDeployment ==
    /\ \A place \in ProfileDocuments :
          db[place[1]][place[2]].embedding
              \in IF keyst.installed THEN SampleEmbeddings
                  ELSE {FallbackEmbedding(db[place[1]][place[2]].text)}
    /\ ~keyst.installed =>
          ~(call.op = "sync" /\ "embedding" \in call.calls /\ call.raised = ErrModel)

\* a sync of a deployment without the model ends at the embedding step
SyncFailsForLackOfModel ==
    /\ ~keyst.installed
    /\ call.op = "sync"
    /\ "embedding" \in call.calls
    /\ call.raised = ErrModel
    /\ ProfileDocuments = {}

\* ---------------------------------------------------------------------------
\* The compare report in both orders (SpecCompare)
\* ---------------------------------------------------------------------------

\* what the compare of the same two users in the other order returns now
Reversed == find_common_interests_report(Store, call.other_user_id, call.user_id).result

\* the values of a list, letter case aside
LowerValues(list) == {lower(list[i]) : i \in 1..Len(list)}

\* no two values of the list differ in letter case only
NoCaseVariants(list) ==
    \A i, j \in 1..Len(list) : lower(list[i]) = lower(list[j]) => i = j

\* C25, amended: for any two users with stored profiles, compareTwoUsers(u1,
\* u2) and compareTwoUsers(u2, u1) report the same similarity, and each
\* common list (genres, artists, songs, albums) has the same values up to
\* letter case in both results, and the same length whenever neither user's
\* extracted list of that kind holds two values that differ only in letter
\* case
CompareIsSymmetricUpToCase ==
    (Compared /\ ret.success) =>
        /\ Reversed.success
        /\ Reversed.similarity = ret.similarity
        /\ \A kind \in ListNames :
              /\ LowerValues(Reversed.commonInterests[kind])
                    = LowerValues(ret.commonInterests[kind])
              /\ (NoCaseVariants(ret.user1Details[kind])
                    /\ NoCaseVariants(ret.user2Details[kind]))
                  => Len(Reversed.commonInterests[kind]) = Len(ret.commonInterests[kind])

\* C25, as stated: compareTwoUsers(u1, u2) and compareTwoUsers(u2, u1) report
\* the same similarity, and each common list has the same length in both
\* results and the same values up to letter case
CompareIsSymmetric ==
    (Compared /\ ret.success) =>
        /\ Reversed.success
        /\ Reversed.similarity = ret.similarity
        /\ \A kind \in ListNames :
              /\ LowerValues(Reversed.commonInterests[kind])
                    = LowerValues(ret.commonInterests[kind])
              /\ Len(Reversed.commonInterests[kind]) = Len(ret.commonInterests[kind])

\* C25's case: Rock, Jazz one way and jazz, ROCK the other way
CommonGenresBothWays ==
    /\ Compared
    /\ ret.success
    /\ ret.commonInterests.genres = <<<<"R", "o", "c", "k">>, <<"J", "a", "z", "z">>>>
    /\ Reversed.success
    /\ Reversed.commonInterests.genres
          = <<<<"j", "a", "z", "z">>, <<"R", "O", "C", "K">>>>
    /\ Reversed.similarity = ret.similarity

\* ---------------------------------------------------------------------------
\* _parse_profile_text on the text of _generate_profile_text (SpecRoundTrip)
\* ---------------------------------------------------------------------------

CommaSongTrack ==
    [id |-> "9", attributes |-> [name |-> "Hello, World", artistName |-> "Artist2",
                                  genreNames |-> <<"Jazz">>]]
PeriodArtistTrack ==
    [id |-> "10", attributes |-> [name |-> "Song2", artistName |-> "Mr. Big",
                                   genreNames |-> <<"R&B, Soul", "Pop">>]]
PeriodGenreTrack ==
    [id |-> "11", attributes |-> [name |-> "Song5", artistName |-> "Artist5",
                                   genreNames |-> <<"Lo.Fi">>]]
KeywordSongTrack ==
    [id |-> "12", attributes |-> [name |-> "Genre: Pop", artistName |-> "Artist6",
                                   genreNames |-> <<"Folk">>]]
PaddedSongTrack ==
    [id |-> "13", attributes |-> [name |-> " Intro", artistName |-> "Artist1",
                                   genreNames |-> <<"Rock">>]]

RoundTripTracks ==
    {RockTrack, BareTrack, CommaSongTrack, PeriodArtistTrack, PeriodGenreTrack,
     KeywordSongTrack, PaddedSongTrack, EmptyGenreTrack}

\* the longest catalog list whose text is parsed
MaxRoundTripTracks == 2

RECURSIVE RoundTripLists(_)
RoundTripLists(n) ==
    IF n = 0 THEN {<<>>}
    ELSE RoundTripLists(n - 1)
         \cup {Append(c, t) : c \in RoundTripLists(n - 1), t \in RoundTripTracks}

InitRoundTrip ==
    /\ db = [c \in {} |-> EmptyCollection]
    /\ collections = {}
    /\ clock = 0
    /\ call \in {[op |-> "_generate_profile_text", catalog_data |-> c] :
                    c \in RoundTripLists(MaxRoundTripTracks)}
    /\ ret = None
    /\ tasks = [t \in Tasks |-> IdleTask]
    /\ landed = [u \in {} |-> None]
    /\ keyst = [pc |-> "input"]

\* _generate_profile_text returns the text, a str
BuildText ==
    /\ keyst.pc = "input"
    /\ call.op = "_generate_profile_text"
    /\ ~ProfileTextRaises(call.catalog_data)
    /\ ret' = TheOne({[profile_text |-> Spelled(built.profile_text, 1,
                                                Len(built.profile_text)),
                       top_genres   |-> built.top_genres] :
                built \in {_generate_profile_text(call.catalog_data)}})
    /\ keyst' = [pc |-> "built"]
    /\ UNCHANGED <<db, collections, clock, call, tasks, landed>>

\* _parse_profile_text reads the text
ParseText ==
    /\ keyst.pc = "built"
    /\ ret' = [profile_text |-> ret.profile_text,
               top_genres   |-> ret.top_genres,
               details      |-> _parse_profile_text(ret.profile_text)]
    /\ keyst' = [pc |-> "parsed"]
    /\ UNCHANGED <<db, collections, clock, call, tasks, landed>>

NextRoundTrip == BuildText \/ ParseText

SpecRoundTrip == InitRoundTrip /\ [][NextRoundTrip]_vars

\* the values of one field of the tracks, "Unknown" for a missing one, each
\* once, in the order of their first track
FieldValues(catalog_data, field) ==
    FirstSeen([i \in 1..Len(catalog_data) |->
                  Chars(IF field = "genre" THEN GenreOf(AttrsOf(catalog_data[i]))
                        ELSE AttrOrUnknown(AttrsOf(catalog_data[i]), field))])

\* the lists the tracks would give back
TrackDetails(catalog_data) ==
    [genres  |-> FieldValues(catalog_data, "genre"),
     artists |-> FieldValues(catalog_data, "artistName"),
     songs   |-> FieldValues(catalog_data, "name"),
     albums  |-> <<>>]

\* the value is not empty, has no whitespace at its ends, and holds neither
\* the stop character nor one of the four keywords in any letter case
Delimited(value, stop) ==
    /\ value # <<>>
    /\ strip(value) = value
    /\ \A i \in 1..Len(value) : value[i] # stop
    /\ \A keyword \in {KeySong, KeyArtist, KeyGenre, KeyAlbum} :
          \A p \in 1..Len(value) : ~KeywordAt(value, keyword, p)

\* every value of the tracks can be told from the text around it
AllDelimited(catalog_data) ==
    LET details == TrackDetails(catalog_data)
    IN  /\ \A i \in 1..Len(details.songs) : Delimited(details.songs[i], ",")
        /\ \A i \in 1..Len(details.artists) : Delimited(details.artists[i], ",")
        /\ \A i \in 1..Len(details.genres) : Delimited(details.genres[i], ".")

\* C26, amended: for every track list in which no track name or artist name
\* holds a comma, no first genre holds a period, and none of these values is
\* empty, starts or ends with whitespace, or holds one of the words "Song:",
\* "Artist:", "Genre:", "Album:" in any letter case, parsing the profile text
\* produced by build yields songs, artists and genres lists equal to the
\* tracks' names, artist names and first genres (with "Unknown" for a missing
\* value), de-duplicated in first-seen order, and an empty albums list
ParseInvertsBuildOfDelimitedNames ==
    (keyst.pc = "parsed" /\ AllDelimited(call.catalog_data)) =>
        ret.details = TrackDetails(call.catalog_data)

\* C26, as stated: for every track list, parsing the profile text produced by
\* build yields the tracks' names, artist names and first genres,
\* de-duplicated in first-seen order, and an empty albums list, whatever
\* characters the names hold
ParseInvertsBuild ==
    keyst.pc = "parsed" => ret.details = TrackDetails(call.catalog_data)

\* C26's case: an artist with a period and a genre with a comma come back
RoundTripOfPeriodAndComma ==
    /\ keyst.pc = "parsed"
    /\ call.catalog_data = <<PeriodArtistTrack, BareTrack>>
    /\ AllDelimited(call.catalog_data)
    /\ ret.details.artists = <<Chars("Mr. Big"), Chars("Unknown")>>
    /\ ret.details.genres = <<Chars("R&B, Soul"), Chars("Unknown")>>

\* ---------------------------------------------------------------------------
\* The two cosine_similarity methods on the same arguments (SpecCosines)
\* ---------------------------------------------------------------------------

ErrDimension == <<"Embeddings", "must", "have", "the", "same", "dimension">>

\* EmbeddingService.cosine_similarity: np.dot and np.linalg.norm in binary64
embedding_cosine_similarity(embedding1, embedding2) ==
    IF Len(embedding1) # Len(embedding2) THEN [raised |-> ErrDimension]
    ELSE TheOne(
      {[value |-> IF magnitude # FloatZero THEN FloatDiv(dot_product, magnitude)
                  ELSE FloatZero] :
         dot_product \in {IF embedding1 = <<>> THEN FloatZero
                          ELSE FloatDot(embedding1, embedding2, FloatZero)},
         magnitude \in
            {IF embedding1 = <<>> THEN FloatZero
             ELSE FloatMul(FloatSqrt(FloatDot(embedding1, embedding1, FloatZero)),
                           FloatSqrt(FloatDot(embedding2, embedding2, FloatZero)))}})

\* both methods are called with the same two vectors
CosineOfBoth ==
    /\ keyst.pc = "input"
    /\ ret' = [store   |-> [value |-> cosine_similarity_float(call.vec_a, call.vec_b)],
               service |-> embedding_cosine_similarity(call.vec_a, call.vec_b)]
    /\ keyst' = [pc |-> "both"]
    /\ UNCHANGED <<db, collections, clock, call, tasks, landed>>

NextCosines == CosineOfBoth

SpecCosines == InitCos /\ [][NextCosines]_vars

\* C27: VectorStoreService.cosine_similarity and
\* EmbeddingService.cosine_similarity give the same outcome for every pair of
\* vectors, pairs of different length and pairs with an empty or all-zero
\* vector included
CosineMethodsAgree ==
    keyst.pc = "both" =>
        /\ "raised" \notin DOMAIN ret.service
        /\ ret.service.value = ret.store.value

\* C27's case: an empty vector and a vector of two components
CosineMethodsOnDifferentLengths ==
    /\ keyst.pc = "both"
    /\ call.vec_a = <<>>
    /\ call.vec_b = <<1, 0>>
    /\ ret.store.value = FloatZero
    /\ ret.service = [raised |-> ErrDimension]

\* ---------------------------------------------------------------------------
\* The partition key mapped again and by AuthService (SpecKeyAgain)
\* ---------------------------------------------------------------------------

\* AuthService.get_user_collection_name
auth_get_user_collection_name(user_id) ==
    LET sanitized == [i \in 1..Len(user_id) |->
                         IF user_id[i] \in LowerCase \cup UpperCase \cup Digits
                         THEN user_id[i] ELSE "_"]
    IN  IF StartsWith(sanitized, UserPrefix) THEN sanitized
        ELSE UserPrefix \o sanitized

\* VectorStoreService.get_user_collection_name is applied to the two keys
MapKeysAgain ==
    /\ keyst.pc = "mapped"
    /\ keyst' = [pc      |-> "mapped again", a |-> keyst.a, b |-> keyst.b,
                 key_a   |-> keyst.key_a, key_b |-> keyst.key_b,
                 again_a |-> get_user_collection_name(keyst.key_a),
                 again_b |-> get_user_collection_name(keyst.key_b)]
    /\ UNCHANGED <<db, collections, clock, call, ret, tasks, landed>>

\* AuthService.get_user_collection_name is applied to the two ids
MapKeysByAuth ==
    /\ keyst.pc = "mapped again"
    /\ keyst' = [pc      |-> "mapped by both", a |-> keyst.a, b |-> keyst.b,
                 key_a   |-> keyst.key_a, key_b |-> keyst.key_b,
                 again_a |-> keyst.again_a, again_b |-> keyst.again_b,
                 auth_a  |-> auth_get_user_collection_name(keyst.a),
                 auth_b  |-> auth_get_user_collection_name(keyst.b)]
    /\ UNCHANGED <<db, collections, clock, call, ret, tasks, landed>>

NextKeyAgain == MapKeys \/ MapKeysAgain \/ MapKeysByAuth

SpecKeyAgain == InitKey /\ [][NextKeyAgain]_vars

\* the key reads user_ and then letters, digits and underscores only
WellFormedKey(key) ==
    /\ Len(key) >= 5
    /\ SubSeq(key, 1, 5) = <<"u", "s", "e", "r", "_">>
    /\ \A i \in 1..Len(key) : key[i] \in Alnum \cup {"_"}

\* C28: for every user id the key of the key is the key, the key starts with
\* user_ and holds only characters of [A-Za-z0-9_], and
\* AuthService.get_user_collection_name gives the same key as
\* VectorStoreService.get_user_collection_name
KeyMappingIsIdempotentAndShared ==
    keyst.pc = "mapped by both" =>
        /\ keyst.again_a = keyst.key_a /\ keyst.again_b = keyst.key_b
        /\ WellFormedKey(keyst.key_a) /\ WellFormedKey(keyst.key_b)
        /\ keyst.auth_a = keyst.key_a /\ keyst.auth_b = keyst.key_b

\* C28's case: "user-" keeps its length, "usera" gets the prefix, and both
\* keys map to themselves
KeysOfUserDashAndUsera ==
    /\ keyst.pc = "mapped by both"
    /\ keyst.a = <<"u", "s", "e", "r", "-">>
    /\ keyst.b = <<"u", "s", "e", "r", "a">>
    /\ keyst.key_a = <<"u", "s", "e", "r", "_">>
    /\ keyst.key_b = <<"u", "s", "e", "r", "_", "u", "s", "e", "r", "a">>
    /\ keyst.again_a = keyst.key_a /\ keyst.again_b = keyst.key_b
    /\ keyst.auth_a = keyst.key_a /\ keyst.auth_b = keyst.key_b

\* ---------------------------------------------------------------------------
\* The sync pass at startup, initialize_data_fetching (SpecStartup)
\* ---------------------------------------------------------------------------

\* the users document of the k-th registered user: with a userToken, with an
\* empty one, or without the field
UserDocuments(k) ==
    LET user_id == <<Id_a, Id_b, Id_c>>[k]
    IN  {[appleMusicUserId |-> user_id, userToken |-> "token", storefront |-> "us"],
         [appleMusicUserId |-> user_id, userToken |-> ""],
         [appleMusicUserId |-> user_id]}

\* the most registered users
MaxUsers == 3

RECURSIVE UserLists(_)
UserLists(n) ==
    IF n = 0 THEN {<<>>}
    ELSE UserLists(n - 1)
         \cup {Append(users, user) :
                 users \in {l \in UserLists(n - 1) : Len(l) = n - 1},
                 user \in UserDocuments(n)}

\* not user.get("userToken")
NoUserToken(user) ==
    IF "userToken" \in DOMAIN user THEN user.userToken = "" ELSE TRUE

\* a plausible slip: the try block is around the loop, so that a failure
\* leaves the loop
IndexAfterFailureOutsideLoop(i, n) == n + 1

\* the index the for loop goes on with when the body has raised at the i-th of
\* n users: the handler is inside the loop
IndexAfterFailure(i, n) == i + 1

InitStartup ==
    /\ db = [c \in {} |-> EmptyCollection]
    /\ collections = {}
    /\ clock = 0
    /\ call \in {[op |-> "initialize_data_fetching", users |-> users] :
                    users \in UserLists(MaxUsers)}
    /\ ret = [log |-> <<>>, raised |-> FALSE]
    /\ tasks = [t \in Tasks |-> IdleTask]
    /\ landed = [u \in {} |-> None]
    /\ keyst = [pc |-> "list_users", i |-> 1, cached_token |-> FALSE]

\* the user the loop is at
LoopUser == call.users[keyst.i]

InLoop == keyst.pc = "loop" /\ keyst.i <= Len(call.users)

Logged(outcome) ==
    ret' = [ret EXCEPT !.log = Append(@, [user_id |-> LoopUser.appleMusicUserId,
                                          outcome |-> outcome])]

\* auth_service.list_users() raises and the outer handler prints the error
ListUsersRaises ==
    /\ keyst.pc = "list_users"
    /\ keyst' = [keyst EXCEPT !.pc = "done"]
    /\ UNCHANGED <<db, collections, clock, call, ret, tasks, landed>>

\* auth_service.list_users() returns the registered users; with none of them
\* the pass returns at once
ListUsersReturns ==
    /\ keyst.pc = "list_users"
    /\ keyst' = [keyst EXCEPT !.pc = IF call.users = <<>> THEN "done" ELSE "loop"]
    /\ UNCHANGED <<db, collections, clock, call, ret, tasks, landed>>

\* the user has no userToken: continue
SkipUser ==
    /\ InLoop
    /\ NoUserToken(LoopUser)
    /\ Logged("skipped")
    /\ keyst' = [keyst EXCEPT !.i = @ + 1]
    /\ UNCHANGED <<db, collections, clock, call, tasks, landed>>

\* token_generator.get_token() raises (no token is cached and the key cannot
\* be read) and the inner handler prints the failure
TokenRaises ==
    /\ InLoop
    /\ ~NoUserToken(LoopUser)
    /\ ~keyst.cached_token
    /\ Logged("failed before sync_user_profile")
    /\ keyst' = [keyst EXCEPT !.i = IndexAfterFailure(@, Len(call.users))]
    /\ UNCHANGED <<db, collections, clock, call, tasks, landed>>

\* sync_user_profile raises and the inner handler prints the failure
SyncRaises(e) ==
    /\ InLoop
    /\ ~NoUserToken(LoopUser)
    /\ Logged("failed")
    /\ keyst' = [keyst EXCEPT !.i = IndexAfterFailure(@, Len(call.users)),
                              !.cached_token = TRUE]
    /\ UNCHANGED <<db, collections, clock, call, tasks, landed>>

\* sync_user_profile returns: with the profile stored, or with "No recent
\* tracks found"
SyncReturns(stored) ==
    /\ InLoop
    /\ ~NoUserToken(LoopUser)
    /\ IF stored
       THEN Leaves(store_user_profile(Store, LoopUser.appleMusicUserId,
                                      TextRockJazz, <<1, 0>>, clock))
       ELSE UNCHANGED <<db, collections>>
    /\ Logged(IF stored THEN "synced" ELSE "no recent tracks")
    /\ keyst' = [keyst EXCEPT !.i = @ + 1, !.cached_token = TRUE]
    /\ UNCHANGED <<clock, call, tasks, landed>>

\* the loop has gone through the list
LoopEnds ==
    /\ keyst.pc = "loop"
    /\ keyst.i > Len(call.users)
    /\ keyst' = [keyst EXCEPT !.pc = "done"]
    /\ UNCHANGED <<db, collections, clock, call, ret, tasks, landed>>

NextStartup ==
    \/ ListUsersRaises
    \/ ListUsersReturns
    \/ SkipUser
    \/ TokenRaises
    \/ \E e \in UpstreamErrors \cup {ErrStorage} : SyncRaises(e)
    \/ \E stored \in BOOLEAN : SyncReturns(stored)
    \/ LoopEnds

\* every await of the pass returns or raises in the end
SpecStartup == InitStartup /\ [][NextStartup]_vars /\ WF_vars(NextStartup)

\* the pass has gone through the k first users, each once and in listing
\* order: skipped without a userToken, attempted with one
WentThrough(k) ==
    /\ Len(ret.log) = k
    /\ \A j \in 1..k :
          /\ ret.log[j].user_id = call.users[j].appleMusicUserId
          /\ ret.log[j].outcome = "skipped" <=> NoUserToken(call.users[j])

\* C29: the startup pass attempts exactly one sync for every registered user
\* that has a userToken, in listing order, whatever became of the users
\* before; it never raises, and it always comes to its end
StartupPassAttemptsEveryTokenUser ==
    /\ [](/\ ~ret.raised
          /\ keyst.pc = "list_users" => ret.log = <<>>
          /\ keyst.pc = "loop" => WentThrough(keyst.i - 1)
          /\ keyst.pc = "done" => (ret.log = <<>> \/ WentThrough(Len(call.users))))
    /\ <>(keyst.pc = "done")

\* C29's case: the first user's sync failed, the second user was skipped, and
\* the third user was synced
ThirdUserSyncedAfterFailureAndSkip ==
    /\ keyst.pc = "done"
    /\ Len(ret.log) = 3
    /\ ret.log[1].outcome = "failed"
    /\ ret.log[2].outcome = "skipped"
    /\ ret.log[3].outcome = "synced"
    /\ HasEmbeddedProfile(Id_c)

\* ---------------------------------------------------------------------------
\* TokenGenerator (SpecToken).  The clock counts half seconds, so that
\* time.time() is clock / 2 and int(time.time()) is clock \div 2.
\* ---------------------------------------------------------------------------

\* expires_in = 180 * 24 * 60 * 60
ExpiresIn == 15552000

\* "Refresh 1 hour before expiry"
RefreshMargin == 3600

ErrNoPrivateKey == <<"No", "private", "key", "available">>

\* how far the clock may jump at once: half a second, an hour, and the time
\* from a signing to half a second before token_expiry
TimeSteps == {1, 2 * RefreshMargin, 2 * (ExpiresIn - RefreshMargin) - 1}

\* the most jumps of the clock
MaxAdvances == 4

\* the most tokens signed
MaxSigned == 3

\* TokenGenerator(team_id, key_id, auth_key_path): private_key tells whether
\* _private_key is set, signed counts the calls of jwt.encode
InitToken ==
    /\ db = [c \in {} |-> EmptyCollection]
    /\ collections = {}
    /\ clock = 0
    /\ call = [op |-> "none"]
    /\ ret = None
    /\ tasks = [t \in Tasks |-> IdleTask]
    /\ landed = [u \in {} |-> None]
    /\ keyst = [pc |-> "token", cached_token |-> None, token_expiry |-> None,
                private_key |-> FALSE, signed |-> 0, advances |-> 0]

\* a plausible slip: the cached token is used until its own expiration
CachedUntilExpiration(generator, time) ==
    /\ generator.cached_token # None
    /\ generator.token_expiry # None
    /\ time < 2 * generator.cached_token.exp

\* self.cached_token and self.token_expiry and time.time() < self.token_expiry
CachedAndFresh(generator, time) ==
    /\ generator.cached_token # None
    /\ generator.token_expiry # None
    /\ time < 2 * generator.token_expiry.seconds

\* TokenGenerator.generate_developer_token at the given time: the generator
\* after the call and what the call returns or raises; readable tells
\* whether load_private_key finds a key when none is loaded yet
generate_developer_token(generator, time, readable) ==
    IF CachedAndFresh(generator, time)
    THEN [generator |-> generator, result |-> [returned |-> generator.cached_token]]
    ELSE IF ~generator.private_key /\ ~readable
    THEN [generator |-> generator, result |-> [raised |-> Reraised(ErrNoPrivateKey)]]
    ELSE LET now   == time \div 2
             token == [iat |-> now, exp |-> now + ExpiresIn,
                       serial |-> generator.signed + 1]
         IN  [generator |-> [generator EXCEPT
                                !.private_key = TRUE,
                                !.signed = @ + 1,
                                !.cached_token = token,
                                !.token_expiry =
                                    [seconds |-> now + ExpiresIn - RefreshMargin]],
              result    |-> [returned |-> token]]

\* TokenGenerator.refresh_token
refresh_token(generator, time, readable) ==
    generate_developer_token(
        [generator EXCEPT !.cached_token = None, !.token_expiry = None],
        time, readable)

\* what a call leaves behind: its name, its time, and the generator before it
Called(op, done) ==
    /\ call' = [op |-> op, time |-> clock, before |-> keyst]
    /\ ret' = done.result
    /\ keyst' = done.generator

\* token_generator.get_token()
GetToken(readable) ==
    /\ keyst.pc = "token"
    /\ keyst.signed < MaxSigned
    /\ Called("get_token", generate_developer_token(keyst, clock, readable))
    /\ UNCHANGED <<db, collections, clock, tasks, landed>>

\* token_generator.refresh_token()
RefreshToken(readable) ==
    /\ keyst.pc = "token"
    /\ keyst.signed < MaxSigned
    /\ Called("refresh_token", refresh_token(keyst, clock, readable))
    /\ UNCHANGED <<db, collections, clock, tasks, landed>>

\* time passes
Advance(d) ==
    /\ keyst.pc = "token"
    /\ keyst.advances < MaxAdvances
    /\ clock' = clock + d
    /\ keyst' = [keyst EXCEPT !.advances = @ + 1]
    /\ UNCHANGED <<db, collections, call, ret, tasks, landed>>

NextToken ==
    \/ \E readable \in BOOLEAN : GetToken(readable)
    \/ \E readable \in BOOLEAN : RefreshToken(readable)
    \/ \E d \in TimeSteps : Advance(d)

SpecToken == InitToken /\ [][NextToken]_vars

\* the call signed a token: it returned the token jwt.encode made at the
\* call's time, and that token is the cached one
SignedNew ==
    /\ "returned" \in DOMAIN ret
    /\ ret.returned = [iat |-> call.time \div 2, exp |-> call.time \div 2 + ExpiresIn,
                       serial |-> call.before.signed + 1]
    /\ keyst.signed = call.before.signed + 1
    /\ keyst.cached_token = ret.returned

\* the generator holds what it held before the call
CacheUntouched ==
    /\ keyst.cached_token = call.before.cached_token
    /\ keyst.token_expiry = call.before.token_expiry
    /\ keyst.signed = call.before.signed

\* the call raised for want of a private key and signed nothing
RaisedUnsigned ==
    /\ ret = [raised |-> ErrNoPrivateKey]
    /\ keyst.signed = call.before.signed

\* C30: get_token returns the cached token without signing when the time is
\* before token_expiry; it signs and caches a new token (or raises for want
\* of a key) when no token is cached or the time has reached token_expiry;
\* refresh_token always signs a new token (or raises); token_expiry is always
\* 3600 seconds before the cached token's own expiration, and a token
\* returned from the cache has not expired
TokenCacheContract ==
    /\ keyst.cached_token # None =>
          /\ keyst.token_expiry # None
          /\ keyst.token_expiry.seconds = keyst.cached_token.exp - 3600
    /\ call.op = "get_token" =>
          IF /\ call.before.cached_token # None
             /\ call.time < 2 * call.before.token_expiry.seconds
          THEN /\ ret = [returned |-> call.before.cached_token]
               /\ CacheUntouched
               /\ call.time < 2 * ret.returned.exp
          ELSE /\ SignedNew \/ RaisedUnsigned
               /\ RaisedUnsigned => (CacheUntouched /\ ~call.before.private_key)
    /\ call.op = "refresh_token" =>
          /\ SignedNew \/ RaisedUnsigned
          /\ RaisedUnsigned =>
                (keyst.cached_token = None /\ ~call.before.private_key)

\* C30's case: half a second before token_expiry the cached token came back,
\* and at token_expiry a new one was signed
TokenSignedAnewAtExpiry ==
    /\ call.op = "get_token"
    /\ call.before.cached_token # None
    /\ call.time = 2 * call.before.token_expiry.seconds
    /\ call.before.cached_token.iat = 0
    /\ SignedNew
    /\ ret.returned.serial = 2

\* the cached token came back half a second before token_expiry
TokenFromCacheBeforeExpiry ==
    /\ call.op = "get_token"
    /\ call.before.cached_token # None
    /\ call.time = 2 * call.before.token_expiry.seconds - 1
    /\ ret = [returned |-> call.before.cached_token]

=============================================================================
